---- MODULE Spec2Model ----
(***************************************************************************)
(* Authentication and token-lifecycle core of the blog backend:            *)
(* AuthController (register, login, refreshToken, logout, logoutAll,       *)
(* getProfile), JwtService, the User model and the authenticate            *)
(* middleware.                                                             *)
(*                                                                         *)
(* Strings are modelled by what the code inspects of them:                 *)
(*   - an email is the sequence of letters of its local part (the domain   *)
(*     is fixed); the empty sequence stands for a string that is not an    *)
(*     email;                                                              *)
(*   - a name is its length and its length after trim();                   *)
(*   - a password is its length, the content of the bytes bcrypt reads     *)
(*     (head) and the content of the bytes beyond them (tail, 0 if none);  *)
(*   - a JSON web token is its signing secret and its claims: HS256 is     *)
(*     deterministic, so two tokens are the same string exactly when       *)
(*     secret and claims agree.                                            *)
(***************************************************************************)
EXTENDS Integers, Sequences, FiniteSets, TLC

\* users:   the User collection, in insertion order
\* clock:   the readings of the clock so far, in seconds, the current one last
\* last:    the operation handled last and the status it answered
\* revoked: history: the refresh tokens a user held when a logout-all of
\*          that user completed
\* rotated: history: the refresh tokens a refresh has succeeded with
\* config:  the configuration read at startup
\* posts:   the Post collection, in insertion order
\* pending: the requests whose handler is suspended at an await
\* answered: history: the requests that were suspended, with their answers
\* browser: the frontend's localStorage items and window.location
\* authHits: the failed requests the auth routes' rate limiter has counted
VARIABLES users, clock, last, rotated, revoked, config, posts, pending, answered, browser, authHits

vars == <<users, clock, last, rotated, revoked, config, posts, pending, answered, browser, authHits>>

\* Date.now() in whole seconds, as jsonwebtoken reads it
now == clock[Len(clock)]

------------------------------------------------------------------------------
(* Bounds of the model *)

\* refresh tokens in the store, all users together
MaxSessions == 2
\* steps of the clock
MaxTicks == 1
\* requests suspended at an await at the same time
MaxInFlight == 2
\* posts in the collection
MaxPosts == 2
\* seconds that pass while the sessions of a user are followed
MaxSeconds == 2

------------------------------------------------------------------------------
(* Program constants *)

AccessTtl == 900
RefreshTtl == 604800

HTTP_STATUS ==
  [OK |-> 200, CREATED |-> 201, BAD_REQUEST |-> 400, UNAUTHORIZED |-> 401,
   FORBIDDEN |-> 403, NOT_FOUND |-> 404, CONFLICT |-> 409,
   UNPROCESSABLE_ENTITY |-> 422, TOO_MANY_REQUESTS |-> 429,
   INTERNAL_SERVER_ERROR |-> 500]

ISSUER == "professional-mern-blog"
AUDIENCE == "professional-mern-blog-users"

------------------------------------------------------------------------------
(* Configuration *)

\* a secret is its length and its text; the text "your-key" is the one that
\* includes 'your-'
SecretInputs ==
  { [len |-> 31, text |-> "short"],
    [len |-> 32, text |-> "key1"],
    [len |-> 32, text |-> "key2"],
    [len |-> 32, text |-> "your-key"] }

EnvInputs ==
  [NODE_ENV : {"development", "production"},
   JWT_ACCESS_SECRET : SecretInputs,
   JWT_REFRESH_SECRET : SecretInputs]

DefaultEnv ==
  [NODE_ENV |-> "development",
   JWT_ACCESS_SECRET |-> [len |-> 32, text |-> "key1"],
   JWT_REFRESH_SECRET |-> [len |-> 32, text |-> "key2"]]

envSchema(env) ==
  /\ env.JWT_ACCESS_SECRET.len >= 32
  /\ env.JWT_REFRESH_SECRET.len >= 32

config_obj(env) ==
  [isProd |-> env.NODE_ENV = "production",
   jwt |-> [accessSecret |-> env.JWT_ACCESS_SECRET.text,
            refreshSecret |-> env.JWT_REFRESH_SECRET.text]]

\* the module loads: the environment parses and the production check passes
startup(env) ==
  /\ envSchema(env)
  /\ config_obj(env).isProd => config_obj(env).jwt.accessSecret # "your-key"

------------------------------------------------------------------------------
(* Input domains *)

\* two addresses that differ only in case, a third one, and a non-email
EmailInputs == {<<>>, <<"a">>, <<"A">>, <<"b">>}

NameInputs ==
  { [len |-> 1, trimmed |-> 1],
    [len |-> 2, trimmed |-> 2],
    [len |-> 2, trimmed |-> 0] }

PasswordInputs ==
  { [len |-> 7,  head |-> 1, tail |-> 0],
    [len |-> 73, head |-> 2, tail |-> 1],
    [len |-> 73, head |-> 2, tail |-> 2] }

\* the salt is only ever compared with itself: one value stands for any
Salts == {1}

------------------------------------------------------------------------------
(* Responses *)

NoUser == [id |-> 0, name |-> [len |-> 0, trimmed |-> 0], email |-> <<>>]
NoTokens == [present |-> FALSE]

createApiResponse(status, user, tokens, message) ==
  [status |-> status, success |-> TRUE, text |-> message,
   user |-> user, tokens |-> tokens]

createErrorResponse(status, error) ==
  [status |-> status, success |-> FALSE, text |-> error,
   user |-> NoUser, tokens |-> NoTokens]

------------------------------------------------------------------------------
(* Request validation: zod schemas and the validate middleware *)

IsEmail(e) == Len(e) >= 1

CreateUserSchema(body) ==
  /\ body.name.len >= 2 /\ body.name.len <= 50
  /\ IsEmail(body.email)
  /\ body.password.len >= 8 /\ body.password.len <= 100

LoginUserSchema(body) ==
  /\ IsEmail(body.email)
  /\ body.password.len >= 1

\* z.object({ refreshToken: z.string().min(1) })
RefreshSchema(token) == token.secret # "absent" /\ token.secret # ""

\* z.object({ refreshToken: z.string().optional() })
LogoutSchema(token) == TRUE

ValidationFailed == createErrorResponse(HTTP_STATUS.UNPROCESSABLE_ENTITY, "Validation failed")

------------------------------------------------------------------------------
(* User model *)

LowerChar(c) == IF c = "A" THEN "a" ELSE c

\* User.findById(id)
findById(us, id) ==
  LET hits == {i \in DOMAIN us : us[i].id = id}
  IN  IF hits = {} THEN 0 ELSE CHOOSE i \in hits : TRUE

\* variant: the schema without its lowercase setter
toLowerCase_identity(e) == e

\* the schema's lowercase setter, applied to documents and to query filters
toLowerCase(e) == [i \in DOMAIN e |-> LowerChar(e[i])]

\* the schema's trim setter on name
trim(name) == [len |-> name.trimmed, trimmed |-> name.trimmed]

\* name: required, minlength 2, maxlength 50, checked after the setters
NameValid(name) == trim(name).len >= 2 /\ trim(name).len <= 50

\* password: minlength 6, maxlength 128, checked on the plaintext
PasswordValid(pw) == pw.len >= 6 /\ pw.len <= 128

\* bcrypt.hash: only the head of the plaintext takes part
bcryptHash(pw, salt) == [salt |-> salt, digest |-> pw.head]

comparePassword(user, candidate) == bcryptHash(candidate, user.password.salt) = user.password

\* a Date written by the timestamps option; the service never reads its value
Timestamp == "Date"

\* the schema's toObject transform
toObject(user) ==
  [id |-> user.id, name |-> user.name, email |-> user.email,
   createdAt |-> user.createdAt, updatedAt |-> user.updatedAt]

\* variant: the document is returned as stored
toPublic_asStored(user) == user

toPublic(user) ==
  LET userObj == toObject(user)
  IN  [id |-> userObj.id, name |-> userObj.name, email |-> userObj.email,
       createdAt |-> userObj.createdAt, updatedAt |-> userObj.updatedAt]

\* variant: the query filter compared as typed
findByEmail_caseSensitive(us, email) ==
  LET hits == {i \in DOMAIN us : us[i].email = email}
  IN  IF hits = {} THEN 0 ELSE CHOOSE i \in hits : \A j \in hits : i <= j

\* User.findOne({ email }): index of the first match, 0 if none
findByEmail(us, email) ==
  LET hits == {i \in DOMAIN us : us[i].email = toLowerCase(email)}
  IN  IF hits = {} THEN 0 ELSE CHOOSE i \in hits : \A j \in hits : i <= j

InSeq(x, s) == \E i \in DOMAIN s : s[i] = x

\* variant: the owner looked up by the userId claim, not by membership
findByRefreshToken_byUserId(us, token) == findById(us, token.userId)

\* User.findOne({ refreshTokens: token })
findByRefreshToken(us, token) ==
  LET hits == {i \in DOMAIN us : InSeq(token, us[i].refreshTokens)}
  IN  IF hits = {} THEN 0 ELSE CHOOSE i \in hits : \A j \in hits : i <= j

\* Array.prototype.indexOf, 1-based; 0 when absent
indexOf(s, x) ==
  LET hits == {i \in DOMAIN s : s[i] = x}
  IN  IF hits = {} THEN 0 ELSE CHOOSE i \in hits : \A j \in hits : i <= j

\* the sequence without its k-th element
RemoveAt(s, k) == SubSeq(s, 1, k - 1) \o SubSeq(s, k + 1, Len(s))

\* Array.prototype.filter(token => token !== x)
filterOut(s, x) == SelectSeq(s, LAMBDA y : y # x)

------------------------------------------------------------------------------
(* JwtService *)

sign(secret, ttl, userId, email, t) ==
  [secret |-> secret, userId |-> userId, email |-> email,
   iat |-> t, exp |-> t + ttl, iss |-> ISSUER, aud |-> AUDIENCE]

generateAccessToken(userId, email, t) == sign(config.jwt.accessSecret, AccessTtl, userId, email, t)

\* variant: the payload does not name the user
generateRefreshToken_anonymous(userId, email, t) ==
  sign(config.jwt.refreshSecret, RefreshTtl, 0, <<>>, t)

generateRefreshToken(userId, email, t) == sign(config.jwt.refreshSecret, RefreshTtl, userId, email, t)

generateTokens(userId, email, t) ==
  [present |-> TRUE,
   accessToken |-> generateAccessToken(userId, email, t),
   refreshToken |-> generateRefreshToken(userId, email, t)]

\* variant: a token is still good in the second of its exp claim
verify_throughExp(token, secret, t) ==
  IF token.secret # secret THEN "invalid"
  ELSE IF t > token.exp THEN "expired"
  ELSE IF token.aud # AUDIENCE \/ token.iss # ISSUER THEN "invalid"
  ELSE "ok"

\* jwt.verify: signature, then expiry, then audience and issuer
verify(token, secret, t) ==
  IF token.secret # secret THEN "invalid"
  ELSE IF t >= token.exp THEN "expired"
  ELSE IF token.aud # AUDIENCE \/ token.iss # ISSUER THEN "invalid"
  ELSE "ok"

verifyAccessToken(token, t) ==
  LET v == verify(token, config.jwt.accessSecret, t)
  IN  [ok |-> v = "ok",
       error |-> CASE v = "expired" -> "Access token has expired"
                   [] v = "invalid" -> "Invalid access token"
                   [] OTHER -> ""]

verifyRefreshToken(token, t) ==
  LET v == verify(token, config.jwt.refreshSecret, t)
  IN  [ok |-> v = "ok",
       error |-> CASE v = "expired" -> "Refresh token has expired"
                   [] v = "invalid" -> "Invalid refresh token"
                   [] OTHER -> ""]

\* header: the parts of the Authorization value split at ' ', <<>> if absent;
\* a part is its text and the token that text is when read as a token
extractTokenFromHeader(header) ==
  IF Len(header) = 0 THEN [found |-> FALSE]
  ELSE IF Len(header) # 2 \/ header[1].word # "Bearer" THEN [found |-> FALSE]
  ELSE [found |-> TRUE, token |-> header[2].token]

createAuthResponse(user, t) ==
  [user |-> toPublic(user), tokens |-> generateTokens(user.id, user.email, t)]

------------------------------------------------------------------------------
(* Tokens and headers a client can present *)

Unsigned(kind) ==
  [secret |-> kind, userId |-> 0, email |-> <<>>, iat |-> 0, exp |-> 0,
   iss |-> "", aud |-> ""]

\* no refreshToken field in the body
AbsentToken == Unsigned("absent")
\* the empty string
EmptyToken == Unsigned("")
\* a string that is not a JSON web token
GarbageToken == Unsigned("garbage")

\* the tokens createAuthResponse can have signed for a user of the store at
\* a reading of the clock so far
RefreshTokens ==
  {generateRefreshToken(users[i].id, users[i].email, clock[k]) :
     i \in DOMAIN users, k \in DOMAIN clock}

AccessTokens ==
  {generateAccessToken(users[i].id, users[i].email, clock[k]) :
     i \in DOMAIN users, k \in DOMAIN clock}

\* what a refresh or logout request can carry: a refresh token, an access
\* token, the empty string, a string that is no token
TokenInputs ==
  RefreshTokens \cup {at \in AccessTokens : at.iat = now} \cup {EmptyToken, GarbageToken}

Word(w) == [word |-> w, token |-> GarbageToken]
Jwt(tok) == [word |-> "jwt", token |-> tok]

\* an access token whose userId is the id of no user
StrangerToken == generateAccessToken(Len(users) + 1, <<"b">>, now)

\* no header, a bearer header with an access token, with a refresh token or
\* with a string that is no token, and an access token under another scheme
HeaderInputs ==
  {<<>>} \cup {<<Word("Bearer"), Jwt(tok)>> :
                 tok \in AccessTokens \cup {GarbageToken, StrangerToken}}
         \cup {<<Word("Bearer"), Jwt(tok)>> : tok \in {rt \in RefreshTokens : rt.iat = now}}
         \cup {<<Word("Basic"), Jwt(tok)>> : tok \in {at \in AccessTokens : at.iat = now}}

------------------------------------------------------------------------------
(* authenticate middleware *)

\* variant: the scheme word of the header is not looked at
authenticate_anyScheme(us, header, t) ==
  LET ext == IF Len(header) # 2 THEN [found |-> FALSE]
             ELSE [found |-> TRUE, token |-> header[2].token]
  IN  IF ~ext.found
      THEN [ok |-> FALSE, res |-> createErrorResponse(401, "Access token is required")]
      ELSE LET v == verifyAccessToken(ext.token, t)
           IN  IF ~v.ok
               THEN [ok |-> FALSE, res |-> createErrorResponse(401, v.error)]
               ELSE LET u == findById(us, ext.token.userId)
                    IN  IF u = 0
                        THEN [ok |-> FALSE, res |-> createErrorResponse(401, "User not found")]
                        ELSE [ok |-> TRUE, user |-> u,
                              jwtPayload |-> [userId |-> ext.token.userId,
                                              email |-> ext.token.email]]

authenticate(us, header, t) ==
  LET ext == extractTokenFromHeader(header)
  IN  IF ~ext.found
      THEN [ok |-> FALSE, res |-> createErrorResponse(401, "Access token is required")]
      ELSE LET v == verifyAccessToken(ext.token, t)
           IN  IF ~v.ok
               THEN [ok |-> FALSE, res |-> createErrorResponse(401, v.error)]
               ELSE LET u == findById(us, ext.token.userId)
                    IN  IF u = 0
                        THEN [ok |-> FALSE, res |-> createErrorResponse(401, "User not found")]
                        ELSE [ok |-> TRUE, user |-> u,
                              jwtPayload |-> [userId |-> ext.token.userId,
                                              email |-> ext.token.email]]

------------------------------------------------------------------------------
(* Initial state *)

Idle == [op |-> "none", status |-> 0]

\* what localStorage.getItem returns for a key that is not set
null == [null |-> TRUE]

\* a browser that holds no tokens
NoSession == [access_token |-> null, refresh_token |-> null, location |-> "/"]

Init ==
  /\ users = <<>>
  /\ clock = <<0>>
  /\ last = Idle
  /\ rotated = {}
  /\ revoked = {}
  /\ config = config_obj(DefaultEnv)
  /\ posts = <<>>
  /\ browser = NoSession
  /\ authHits = 0
  /\ pending = <<>>
  /\ answered = {}

------------------------------------------------------------------------------
(* AuthController: each handler maps the store, the clock and the request *)
(* to the store it leaves and the response it sends                       *)

\* the document built by new User(userData) and written by the first save()
newUser(us, body, salt) ==
  [id |-> Len(us) + 1,
   name |-> trim(body.name),
   email |-> toLowerCase(body.email),
   password |-> bcryptHash(body.password, salt),
   refreshTokens |-> <<>>,
   createdAt |-> Timestamp,
   updatedAt |-> Timestamp]

\* variant: the collection without the unique index on email
registerSave_noUniqueIndex(us, t, body, salt) ==
  IF ~(NameValid(body.name) /\ PasswordValid(body.password))
  THEN [users |-> us,
        res |-> createErrorResponse(HTTP_STATUS.INTERNAL_SERVER_ERROR,
                                    "Registration failed")]
  ELSE LET user == newUser(us, body, salt)
           authResponse == createAuthResponse(user, t)
           saved == [user EXCEPT !.refreshTokens =
                        Append(@, authResponse.tokens.refreshToken)]
       IN  [users |-> Append(us, saved),
            res |-> createApiResponse(HTTP_STATUS.CREATED, authResponse.user,
                       authResponse.tokens, "User registered successfully")]

\* register from new User(userData) on: the first save() validates the
\* document and inserts it under the unique index on email, the second
\* stores the refresh token; an error of either is answered 500
registerSave(us, t, body, salt) ==
  IF ~(NameValid(body.name) /\ PasswordValid(body.password))
  THEN [users |-> us,
        res |-> createErrorResponse(HTTP_STATUS.INTERNAL_SERVER_ERROR,
                                    "Registration failed")]
  ELSE IF \E i \in DOMAIN us : us[i].email = toLowerCase(body.email)
  THEN [users |-> us,
        res |-> createErrorResponse(HTTP_STATUS.INTERNAL_SERVER_ERROR,
                                    "Registration failed")]
  ELSE LET user == newUser(us, body, salt)
           authResponse == createAuthResponse(user, t)
           saved == [user EXCEPT !.refreshTokens =
                        Append(@, authResponse.tokens.refreshToken)]
       IN  [users |-> Append(us, saved),
            res |-> createApiResponse(HTTP_STATUS.CREATED, authResponse.user,
                       authResponse.tokens, "User registered successfully")]

\* register up to the existence check: the answer it sends there, if any
registerCheck(us, body) ==
  IF ~CreateUserSchema(body)
  THEN [done |-> TRUE, res |-> ValidationFailed]
  ELSE IF findByEmail(us, body.email) # 0
  THEN [done |-> TRUE,
        res |-> createErrorResponse(HTTP_STATUS.CONFLICT,
                                    "User with this email already exists")]
  ELSE [done |-> FALSE]

register(us, t, body, salt) ==
  LET check == registerCheck(us, body)
  IN  IF check.done
      THEN [users |-> us, res |-> check.res]
      ELSE registerSave(us, t, body, salt)

\* variant: the new refresh token replaces the stored ones
login_replacesTokens(us, t, body) ==
  IF ~LoginUserSchema(body)
  THEN [users |-> us, res |-> ValidationFailed]
  ELSE LET u == findByEmail(us, body.email)
       IN  IF u = 0
           THEN [users |-> us,
                 res |-> createErrorResponse(HTTP_STATUS.UNAUTHORIZED,
                                             "Invalid email or password")]
           ELSE IF ~comparePassword(us[u], body.password)
           THEN [users |-> us,
                 res |-> createErrorResponse(HTTP_STATUS.UNAUTHORIZED,
                                             "Invalid email or password")]
           ELSE LET authResponse == createAuthResponse(us[u], t)
                IN  [users |-> [us EXCEPT ![u].refreshTokens =
                                   <<authResponse.tokens.refreshToken>>],
                     res |-> createApiResponse(HTTP_STATUS.OK, authResponse.user,
                                authResponse.tokens, "Login successful")]

\* variant: an unknown email gets its own message
login_revealsUnknownEmail(us, t, body) ==
  IF ~LoginUserSchema(body)
  THEN [users |-> us, res |-> ValidationFailed]
  ELSE LET u == findByEmail(us, body.email)
       IN  IF u = 0
           THEN [users |-> us,
                 res |-> createErrorResponse(HTTP_STATUS.UNAUTHORIZED, "User not found")]
           ELSE IF ~comparePassword(us[u], body.password)
           THEN [users |-> us,
                 res |-> createErrorResponse(HTTP_STATUS.UNAUTHORIZED,
                                             "Invalid email or password")]
           ELSE LET authResponse == createAuthResponse(us[u], t)
                IN  [users |-> [us EXCEPT ![u].refreshTokens =
                                   Append(@, authResponse.tokens.refreshToken)],
                     res |-> createApiResponse(HTTP_STATUS.OK, authResponse.user,
                                authResponse.tokens, "Login successful")]

login(us, t, body) ==
  IF ~LoginUserSchema(body)
  THEN [users |-> us, res |-> ValidationFailed]
  ELSE LET u == findByEmail(us, body.email)
       IN  IF u = 0
           THEN [users |-> us,
                 res |-> createErrorResponse(HTTP_STATUS.UNAUTHORIZED,
                                             "Invalid email or password")]
           ELSE IF ~comparePassword(us[u], body.password)
           THEN [users |-> us,
                 res |-> createErrorResponse(HTTP_STATUS.UNAUTHORIZED,
                                             "Invalid email or password")]
           ELSE LET authResponse == createAuthResponse(us[u], t)
                IN  [users |-> [us EXCEPT ![u].refreshTokens =
                                   Append(@, authResponse.tokens.refreshToken)],
                     res |-> createApiResponse(HTTP_STATUS.OK, authResponse.user,
                                authResponse.tokens, "Login successful")]

\* refreshToken up to the await of user.save(): the answer it sends there,
\* or the document it read, the tokens it signed and the place it assigns
refreshRead(us, t, token) ==
  IF ~RefreshSchema(token)
  THEN [done |-> TRUE, res |-> ValidationFailed]
  ELSE IF token.secret = ""
  THEN [done |-> TRUE,
        res |-> createErrorResponse(HTTP_STATUS.BAD_REQUEST, "Refresh token is required")]
  ELSE LET payload == verifyRefreshToken(token, t)
           u == findByRefreshToken(us, token)
       IN  IF ~payload.ok
           THEN [done |-> TRUE,
                 res |-> createErrorResponse(HTTP_STATUS.UNAUTHORIZED, payload.error)]
           ELSE IF u = 0
           THEN [done |-> TRUE,
                 res |-> createErrorResponse(HTTP_STATUS.UNAUTHORIZED,
                                             "Invalid refresh token")]
           ELSE [done |-> FALSE, user |-> u,
                 authResponse |-> createAuthResponse(us[u], t),
                 tokenIndex |-> indexOf(us[u].refreshTokens, token)]

\* user.save() after refreshTokens[tokenIndex] was assigned: the one array
\* element is set in the stored document; then the answer
refreshWrite(us, read) ==
  [users |-> IF read.tokenIndex # 0
             THEN [us EXCEPT ![read.user].refreshTokens[read.tokenIndex] =
                      read.authResponse.tokens.refreshToken]
             ELSE us,
   res |-> createApiResponse(HTTP_STATUS.OK, read.authResponse.user,
              read.authResponse.tokens, "Tokens refreshed successfully")]

\* variant: the old token is filtered out and the new one pushed at the end
refreshToken_pushes(us, t, token) ==
  IF ~RefreshSchema(token)
  THEN [users |-> us, res |-> ValidationFailed]
  ELSE IF token.secret = ""
  THEN [users |-> us,
        res |-> createErrorResponse(HTTP_STATUS.BAD_REQUEST, "Refresh token is required")]
  ELSE LET payload == verifyRefreshToken(token, t)
           u == findByRefreshToken(us, token)
       IN  IF ~payload.ok
           THEN [users |-> us,
                 res |-> createErrorResponse(HTTP_STATUS.UNAUTHORIZED, payload.error)]
           ELSE IF u = 0
           THEN [users |-> us,
                 res |-> createErrorResponse(HTTP_STATUS.UNAUTHORIZED,
                                             "Invalid refresh token")]
           ELSE LET authResponse == createAuthResponse(us[u], t)
                IN  [users |-> [us EXCEPT ![u].refreshTokens =
                                   Append(filterOut(@, token),
                                          authResponse.tokens.refreshToken)],
                     res |-> createApiResponse(HTTP_STATUS.OK, authResponse.user,
                                authResponse.tokens, "Tokens refreshed successfully")]

\* variant: a stored token that fails verification is dropped from the store
refreshToken_dropsUnverified(us, t, token) ==
  IF ~RefreshSchema(token)
  THEN [users |-> us, res |-> ValidationFailed]
  ELSE IF token.secret = ""
  THEN [users |-> us,
        res |-> createErrorResponse(HTTP_STATUS.BAD_REQUEST, "Refresh token is required")]
  ELSE LET payload == verifyRefreshToken(token, t)
           u == findByRefreshToken(us, token)
       IN  IF ~payload.ok
           THEN [users |-> IF u # 0
                           THEN [us EXCEPT ![u].refreshTokens = filterOut(@, token)]
                           ELSE us,
                 res |-> createErrorResponse(HTTP_STATUS.UNAUTHORIZED, payload.error)]
           ELSE IF u = 0
           THEN [users |-> us,
                 res |-> createErrorResponse(HTTP_STATUS.UNAUTHORIZED,
                                             "Invalid refresh token")]
           ELSE LET authResponse == createAuthResponse(us[u], t)
                    tokenIndex == indexOf(us[u].refreshTokens, token)
                IN  [users |-> IF tokenIndex # 0
                               THEN [us EXCEPT ![u].refreshTokens[tokenIndex] =
                                        authResponse.tokens.refreshToken]
                               ELSE us,
                     res |-> createApiResponse(HTTP_STATUS.OK, authResponse.user,
                                authResponse.tokens, "Tokens refreshed successfully")]

refreshToken(us, t, token) ==
  LET read == refreshRead(us, t, token)
  IN  IF read.done
      THEN [users |-> us, res |-> read.res]
      ELSE refreshWrite(us, read)

\* variant: every token of the owner is removed
logout_clearsAll(us, token) ==
  LET u == findByRefreshToken(us, token)
  IN  [users |-> IF token.secret \notin {"absent", ""} /\ u # 0
                 THEN [us EXCEPT ![u].refreshTokens = <<>>]
                 ELSE us,
       res |-> createApiResponse(HTTP_STATUS.OK, NoUser, NoTokens,
                                 "Logged out successfully")]

logout(us, token) ==
  LET u == findByRefreshToken(us, token)
  IN  [users |-> IF token.secret \notin {"absent", ""} /\ u # 0
                 THEN [us EXCEPT ![u].refreshTokens = filterOut(@, token)]
                 ELSE us,
       res |-> createApiResponse(HTTP_STATUS.OK, NoUser, NoTokens,
                                 "Logged out successfully")]

logoutAll(us, t, header) ==
  LET auth == authenticate(us, header, t)
  IN  IF ~auth.ok
      THEN [users |-> us, res |-> auth.res]
      ELSE [users |-> [us EXCEPT ![auth.user].refreshTokens = <<>>],
            res |-> createApiResponse(HTTP_STATUS.OK, NoUser, NoTokens,
                       "Logged out from all devices successfully")]

getProfile(us, t, header) ==
  LET auth == authenticate(us, header, t)
  IN  IF ~auth.ok
      THEN [users |-> us, res |-> auth.res]
      ELSE [users |-> us,
            res |-> createApiResponse(HTTP_STATUS.OK, toPublic(us[auth.user]),
                                      NoTokens, "Profile retrieved successfully")]

------------------------------------------------------------------------------
(* The handlers split at their awaits: what a request reads, and what its   *)
(* user.save() writes when other requests have written in between.          *)
(* save() sends only the changes: push is sent as $push and increments the  *)
(* document's version; an assigned array element is sent as $set of that    *)
(* element under the condition that the version is the one read; an         *)
(* assigned array is sent as $set of the array under the same condition and *)
(* increments the version. stale tells that the version has changed since   *)
(* the document was read; save() then throws and the handler answers 500.   *)

\* variant: the element is written whatever the document's version
refreshSave_unversioned(us, read, stale) ==
  refreshWrite(us, read)

\* user.save() of refreshToken
refreshSave(us, read, stale) ==
  IF stale /\ read.tokenIndex # 0
  THEN [users |-> us,
        res |-> createErrorResponse(HTTP_STATUS.INTERNAL_SERVER_ERROR,
                                    "Token refresh failed")]
  ELSE refreshWrite(us, read)

\* login up to the await of user.save()
loginRead(us, t, body) ==
  IF ~LoginUserSchema(body)
  THEN [done |-> TRUE, res |-> ValidationFailed]
  ELSE LET u == findByEmail(us, body.email)
       IN  IF u = 0 \/ ~comparePassword(us[u], body.password)
           THEN [done |-> TRUE,
                 res |-> createErrorResponse(HTTP_STATUS.UNAUTHORIZED,
                                             "Invalid email or password")]
           ELSE [done |-> FALSE, user |-> u,
                 authResponse |-> createAuthResponse(us[u], t)]

\* user.save() of login: the pushed token is appended to the stored array
loginWrite(us, read) ==
  [users |-> [us EXCEPT ![read.user].refreshTokens =
                 Append(@, read.authResponse.tokens.refreshToken)],
   res |-> createApiResponse(HTTP_STATUS.OK, read.authResponse.user,
              read.authResponse.tokens, "Login successful")]

\* logout up to the await of user.save(): doc is the array as it was read
logoutRead(us, token) ==
  LET u == findByRefreshToken(us, token)
  IN  IF token.secret \in {"absent", ""} \/ u = 0
      THEN [done |-> TRUE,
            res |-> createApiResponse(HTTP_STATUS.OK, NoUser, NoTokens,
                                      "Logged out successfully")]
      ELSE [done |-> FALSE, user |-> u, doc |-> us[u].refreshTokens]

\* user.save() of logout: the filtered copy of the array that was read
\* replaces the stored array
logoutWrite(us, read, token, stale) ==
  IF stale
  THEN [users |-> us,
        res |-> createErrorResponse(HTTP_STATUS.INTERNAL_SERVER_ERROR,
                                    "Logout failed")]
  ELSE [users |-> [us EXCEPT ![read.user].refreshTokens =
                      filterOut(read.doc, token)],
        res |-> createApiResponse(HTTP_STATUS.OK, NoUser, NoTokens,
                                  "Logged out successfully")]

\* logoutAll up to the await of req.user.save(): authenticate has loaded
\* req.user
logoutAllRead(us, t, header) ==
  LET auth == authenticate(us, header, t)
  IN  IF ~auth.ok
      THEN [done |-> TRUE, res |-> auth.res]
      ELSE [done |-> FALSE, user |-> auth.user,
            doc |-> us[auth.user].refreshTokens]

\* req.user.save() of logoutAll: an empty array assigned to an empty array
\* is no change and nothing is sent
logoutAllWrite(us, read, stale) ==
  IF read.doc # <<>> /\ stale
  THEN [users |-> us,
        res |-> createErrorResponse(HTTP_STATUS.INTERNAL_SERVER_ERROR,
                                    "Logout all failed")]
  ELSE [users |-> IF read.doc # <<>>
                  THEN [us EXCEPT ![read.user].refreshTokens = <<>>]
                  ELSE us,
        res |-> createApiResponse(HTTP_STATUS.OK, NoUser, NoTokens,
                   "Logged out from all devices successfully")]

\* register from new User(userData) to the first await user.save(): the
\* document is validated and inserted under the unique index on email
registerInsert(us, body, salt) ==
  IF \/ ~(NameValid(body.name) /\ PasswordValid(body.password))
     \/ \E i \in DOMAIN us : us[i].email = toLowerCase(body.email)
  THEN [ok |-> FALSE, users |-> us,
        res |-> createErrorResponse(HTTP_STATUS.INTERNAL_SERVER_ERROR,
                                    "Registration failed")]
  ELSE [ok |-> TRUE, users |-> Append(us, newUser(us, body, salt)),
        user |-> Len(us) + 1]

\* variant: a failed second save takes the created record back out
registerStore_rollsBack(us, t, u, fails) ==
  IF fails
  THEN [users |-> RemoveAt(us, u),
        res |-> createErrorResponse(HTTP_STATUS.INTERNAL_SERVER_ERROR,
                                    "Registration failed")]
  ELSE LET authResponse == createAuthResponse(us[u], t)
       IN  [users |-> [us EXCEPT ![u].refreshTokens =
                          Append(@, authResponse.tokens.refreshToken)],
            res |-> createApiResponse(HTTP_STATUS.CREATED, authResponse.user,
                       authResponse.tokens, "User registered successfully")]

\* register from createAuthResponse on: the push and the second
\* await user.save(), which the store lets through or fails
registerStore(us, t, u, fails) ==
  IF fails
  THEN [users |-> us,
        res |-> createErrorResponse(HTTP_STATUS.INTERNAL_SERVER_ERROR,
                                    "Registration failed")]
  ELSE LET authResponse == createAuthResponse(us[u], t)
       IN  [users |-> [us EXCEPT ![u].refreshTokens =
                          Append(@, authResponse.tokens.refreshToken)],
            res |-> createApiResponse(HTTP_STATUS.CREATED, authResponse.user,
                       authResponse.tokens, "User registered successfully")]

------------------------------------------------------------------------------
(* Requests *)

ValidName == [len |-> 2, trimmed |-> 2]
ShortPassword == [len |-> 7, head |-> 1, tail |-> 0]
LongPasswords == PasswordInputs \ {ShortPassword}
SomePassword == CHOOSE p \in LongPasswords : TRUE

OtherPassword == CHOOSE p \in LongPasswords : p # SomePassword

\* the well-formed bodies, and bodies with one field off
RegisterBodies ==
  [name : {ValidName}, email : EmailInputs \ {<<>>}, password : {SomePassword}]
    \cup [name : NameInputs, email : {<<"a">>}, password : {SomePassword}]
    \cup [name : {ValidName}, email : {<<>>}, password : {SomePassword}]
    \cup [name : {ValidName}, email : {<<"a">>}, password : {ShortPassword, OtherPassword}]

LoginBodies ==
  [email : EmailInputs, password : {ShortPassword, SomePassword}]
    \cup [email : {<<"a">>}, password : {OtherPassword}]

RECURSIVE SessionCount(_)
SessionCount(us) ==
  IF us = <<>> THEN 0
  ELSE Len(us[1].refreshTokens) + SessionCount(Tail(us))

RegisterReq ==
  \E body \in RegisterBodies, salt \in Salts :
    LET r == register(users, now, body, salt)
    IN  /\ SessionCount(r.users) <= MaxSessions
        /\ users' = r.users
        /\ last' = [op |-> "register", status |-> r.res.status]
        /\ UNCHANGED clock

LoginReq ==
  \E body \in LoginBodies :
    LET r == login(users, now, body)
    IN  /\ SessionCount(r.users) <= MaxSessions
        /\ users' = r.users
        /\ last' = [op |-> "login", status |-> r.res.status]
        /\ UNCHANGED clock

RefreshTokenReq(token) ==
  LET r == refreshToken(users, now, token)
  IN  /\ users' = r.users
      /\ last' = [op |-> "refresh", status |-> r.res.status]
      /\ UNCHANGED clock

LogoutReq ==
  \E token \in TokenInputs \cup {AbsentToken} :
    LET r == logout(users, token)
    IN  /\ LogoutSchema(token)
        /\ users' = r.users
        /\ last' = [op |-> "logout", status |-> r.res.status]
        /\ UNCHANGED clock

LogoutAllReq(header) ==
  LET r == logoutAll(users, now, header)
  IN  /\ users' = r.users
      /\ last' = [op |-> "logoutAll", status |-> r.res.status]
      /\ UNCHANGED clock

GetProfileReq ==
  \E header \in HeaderInputs :
    LET r == getProfile(users, now, header)
    IN  /\ users' = r.users
        /\ last' = [op |-> "getProfile", status |-> r.res.status]
        /\ UNCHANGED clock

\* time passes: a second, the life of an access token, or that of a refresh token
ClockReq ==
  \E d \in {1, AccessTtl, RefreshTtl} :
    /\ Len(clock) <= MaxTicks
    /\ clock' = Append(clock, now + d)
    /\ last' = Idle
    /\ UNCHANGED users

------------------------------------------------------------------------------
(* Specification of the service *)

Register == RegisterReq /\ UNCHANGED <<rotated, revoked, config, browser, authHits, posts, pending, answered>>
Login == LoginReq /\ UNCHANGED <<rotated, revoked, config, browser, authHits, posts, pending, answered>>
RefreshToken ==
  \E token \in TokenInputs : RefreshTokenReq(token) /\ UNCHANGED <<rotated, revoked, config, browser, authHits, posts, pending, answered>>
Logout == LogoutReq /\ UNCHANGED <<rotated, revoked, config, browser, authHits, posts, pending, answered>>
LogoutAll ==
  \E header \in HeaderInputs : LogoutAllReq(header) /\ UNCHANGED <<rotated, revoked, config, browser, authHits, posts, pending, answered>>
GetProfile == GetProfileReq /\ UNCHANGED <<rotated, revoked, config, browser, authHits, posts, pending, answered>>
Tick == ClockReq /\ UNCHANGED <<rotated, revoked, config, browser, authHits, posts, pending, answered>>

Next ==
  \/ Register
  \/ Login
  \/ RefreshToken
  \/ Logout
  \/ LogoutAll
  \/ GetProfile
  \/ Tick

Spec == Init /\ [][Next]_vars

------------------------------------------------------------------------------
(* The routes that issue access tokens and the routes behind authenticate *)

NextAccess ==
  \/ Register
  \/ Login
  \/ LogoutAll
  \/ GetProfile
  \/ Tick

SpecAccess == Init /\ [][NextAccess]_vars

------------------------------------------------------------------------------
(* The service with its history recorded *)

\* records the tokens a refresh has succeeded with
RefreshTokenRecorded ==
  \E token \in TokenInputs :
    /\ RefreshTokenReq(token)
    /\ rotated' = IF refreshToken(users, now, token).res.status = HTTP_STATUS.OK
                  THEN rotated \cup {token}
                  ELSE rotated
    /\ UNCHANGED <<revoked, config, browser, authHits, posts, pending, answered>>

NextRotation ==
  \/ Register
  \/ Login
  \/ RefreshTokenRecorded
  \/ Logout
  \/ LogoutAll
  \/ GetProfile
  \/ Tick

SpecRotation == Init /\ [][NextRotation]_vars

\* records the tokens a user holds when a logout-all of that user completes
LogoutAllRecorded ==
  \E header \in HeaderInputs :
    LET auth == authenticate(users, header, now)
    IN  /\ LogoutAllReq(header)
        /\ revoked' = IF auth.ok
                      THEN revoked \cup {users[auth.user].refreshTokens[k] :
                                          k \in DOMAIN users[auth.user].refreshTokens}
                      ELSE revoked
        /\ UNCHANGED <<rotated, config, browser, authHits, posts, pending, answered>>

NextRevocation ==
  \/ Register
  \/ Login
  \/ RefreshToken
  \/ Logout
  \/ LogoutAllRecorded
  \/ GetProfile
  \/ Tick

SpecRevocation == Init /\ [][NextRevocation]_vars

------------------------------------------------------------------------------
(* The service under every configuration it starts with *)

InitConfig ==
  /\ users = <<>>
  /\ clock = <<0>>
  /\ last = Idle
  /\ rotated = {}
  /\ revoked = {}
  /\ \E env \in EnvInputs : startup(env) /\ config = config_obj(env)
  /\ posts = <<>>
  /\ browser = NoSession
  /\ authHits = 0
  /\ pending = <<>>
  /\ answered = {}

SpecConfig == InitConfig /\ [][Next]_vars

------------------------------------------------------------------------------
(* Post model and PostsController *)
(* A post is its id, the id of its author and its title; content and tags  *)
(* are handled as the title is.                                            *)

\* the string of an ObjectId
ObjectIdString(id) == [kind |-> "hex", id |-> id]

\* Document.prototype.toString: the inspected document
DocumentString(doc) == [kind |-> "inspect", id |-> doc.id]

Null == [kind |-> "null", id |-> 0]

\* the find hook: author replaced by the user document, name and email selected
populate(us, post) ==
  LET u == findById(us, post.author)
  IN  [post EXCEPT !.author =
         IF u = 0 THEN Null
         ELSE [kind |-> "document", id |-> us[u].id,
               name |-> us[u].name, email |-> us[u].email]]

\* Post.findById(id): index of the post, 0 if none
findPostById(ps, id) ==
  LET hits == {k \in DOMAIN ps : ps[k].id = id}
  IN  IF hits = {} THEN 0 ELSE CHOOSE k \in hits : TRUE

\* post.author.toString()
authorString(author) ==
  IF author.kind = "document" THEN DocumentString(author)
  ELSE ObjectIdString(author.id)

RECURSIVE MaxPostId(_)
MaxPostId(ps) ==
  IF ps = <<>> THEN 0
  ELSE LET m == MaxPostId(Tail(ps))
       IN  IF ps[1].id > m THEN ps[1].id ELSE m

\* title: 1..200 characters
CreatePostSchema(body) == body.title # ""
UpdatePostSchema(body) == body.title # ""

createPost(ps, us, t, header, body) ==
  LET auth == authenticate(us, header, t)
  IN  IF ~auth.ok THEN [posts |-> ps, res |-> auth.res]
      ELSE IF ~CreatePostSchema(body) THEN [posts |-> ps, res |-> ValidationFailed]
      ELSE [posts |-> Append(ps, [id |-> MaxPostId(ps) + 1,
                                  author |-> auth.jwtPayload.userId,
                                  title |-> body.title]),
            res |-> createApiResponse(HTTP_STATUS.CREATED, NoUser, NoTokens,
                                      "Post created successfully")]

updatePost(ps, us, t, header, id, body) ==
  LET auth == authenticate(us, header, t)
      k == findPostById(ps, id)
  IN  IF ~auth.ok THEN [posts |-> ps, res |-> auth.res]
      ELSE IF ~UpdatePostSchema(body) THEN [posts |-> ps, res |-> ValidationFailed]
      ELSE IF k = 0
      THEN [posts |-> ps,
            res |-> createErrorResponse(HTTP_STATUS.NOT_FOUND, "Post not found")]
      ELSE LET post == populate(us, ps[k])
           IN  IF post.author = Null
               THEN [posts |-> ps,
                     res |-> createErrorResponse(HTTP_STATUS.INTERNAL_SERVER_ERROR,
                                                 "Failed to update post")]
               ELSE IF authorString(post.author) # ObjectIdString(auth.jwtPayload.userId)
               THEN [posts |-> ps,
                     res |-> createErrorResponse(HTTP_STATUS.FORBIDDEN,
                                                 "Not authorized to update this post")]
               ELSE [posts |-> [ps EXCEPT ![k].title = body.title],
                     res |-> createApiResponse(HTTP_STATUS.OK, NoUser, NoTokens,
                                               "Post updated successfully")]

deletePost(ps, us, t, header, id) ==
  LET auth == authenticate(us, header, t)
      k == findPostById(ps, id)
  IN  IF ~auth.ok THEN [posts |-> ps, res |-> auth.res]
      ELSE IF k = 0
      THEN [posts |-> ps,
            res |-> createErrorResponse(HTTP_STATUS.NOT_FOUND, "Post not found")]
      ELSE LET post == populate(us, ps[k])
           IN  IF post.author = Null
               THEN [posts |-> ps,
                     res |-> createErrorResponse(HTTP_STATUS.INTERNAL_SERVER_ERROR,
                                                 "Failed to delete post")]
               ELSE IF authorString(post.author) # ObjectIdString(auth.jwtPayload.userId)
               THEN [posts |-> ps,
                     res |-> createErrorResponse(HTTP_STATUS.FORBIDDEN,
                                                 "Not authorized to delete this post")]
               ELSE [posts |-> RemoveAt(ps, k),
                     res |-> createApiResponse(HTTP_STATUS.OK, NoUser, NoTokens,
                                               "Post deleted successfully")]

PostBodies == {[title |-> ""], [title |-> "t1"], [title |-> "t2"]}

\* the ids of the posts and one id no post has
PostIdInputs == {posts[k].id : k \in DOMAIN posts} \cup {MaxPostId(posts) + 1}

CreatePost ==
  \E header \in HeaderInputs, body \in PostBodies :
    LET r == createPost(posts, users, now, header, body)
    IN  /\ Len(r.posts) <= MaxPosts
        /\ posts' = r.posts
        /\ last' = [op |-> "createPost", status |-> r.res.status]
        /\ UNCHANGED <<users, clock, rotated, revoked, config, browser, authHits, pending, answered>>

UpdatePost ==
  \E header \in HeaderInputs, id \in PostIdInputs, body \in PostBodies :
    LET r == updatePost(posts, users, now, header, id, body)
    IN  /\ posts' = r.posts
        /\ last' = [op |-> "updatePost", status |-> r.res.status]
        /\ UNCHANGED <<users, clock, rotated, revoked, config, browser, authHits, pending, answered>>

DeletePost ==
  \E header \in HeaderInputs, id \in PostIdInputs :
    LET r == deletePost(posts, users, now, header, id)
    IN  /\ posts' = r.posts
        /\ last' = [op |-> "deletePost", status |-> r.res.status]
        /\ UNCHANGED <<users, clock, rotated, revoked, config, browser, authHits, pending, answered>>

NextPosts ==
  \/ Register
  \/ CreatePost
  \/ UpdatePost
  \/ DeletePost
  \/ Tick

SpecPosts == Init /\ [][NextPosts]_vars

------------------------------------------------------------------------------
(* requireOwnership middleware *)

\* a route parameter or body field that is missing or the empty string
Absent == [kind |-> "absent", id |-> 0]

\* optionalAuthenticate: req.user, 0 when it is left unset
optionalAuthenticate(us, header, t) ==
  LET ext == extractTokenFromHeader(header)
  IN  IF ~ext.found THEN 0
      ELSE IF ~verifyAccessToken(ext.token, t).ok THEN 0
      ELSE findById(us, ext.token.userId)

\* user: req.user; paramsUserId: req.params.userId; bodyField: the body
\* field named by resourceUserIdField
requireOwnership(us, user, paramsUserId, bodyField) ==
  IF user = 0
  THEN [next |-> FALSE,
        res |-> createErrorResponse(HTTP_STATUS.UNAUTHORIZED, "Authentication required")]
  ELSE LET resourceUserId == IF paramsUserId # Absent THEN paramsUserId ELSE bodyField
           currentUserId == ObjectIdString(us[user].id)
       IN  IF resourceUserId # Absent /\ resourceUserId # currentUserId
           THEN [next |-> FALSE,
                 res |-> createErrorResponse(HTTP_STATUS.FORBIDDEN,
                            "You can only access your own resources")]
           ELSE [next |-> TRUE, res |-> createApiResponse(0, NoUser, NoTokens, "")]

\* no owner id, the id of a user, and an id no user has
OwnerIdInputs ==
  {Absent} \cup {ObjectIdString(users[i].id) : i \in DOMAIN users}
           \cup {ObjectIdString(Len(users) + 1)}

\* a request through optionalAuthenticate and requireOwnership
OwnershipReq(header, paramsUserId, bodyField) ==
  LET user == optionalAuthenticate(users, header, now)
      r == requireOwnership(users, user, paramsUserId, bodyField)
  IN  /\ last' = IF r.next THEN [op |-> "next", status |-> 0]
                 ELSE [op |-> "requireOwnership", status |-> r.res.status]
      /\ UNCHANGED <<users, clock, rotated, revoked, config, browser, authHits, posts, pending, answered>>

Ownership ==
  \E header \in HeaderInputs, paramsUserId \in OwnerIdInputs, bodyField \in OwnerIdInputs :
    OwnershipReq(header, paramsUserId, bodyField)

NextOwnership ==
  \/ Register
  \/ Login
  \/ Ownership
  \/ Tick

SpecOwnership == Init /\ [][NextOwnership]_vars

------------------------------------------------------------------------------
(* Refresh requests in flight together; every other request is handled     *)
(* while none is in flight                                                 *)

\* a refresh up to its await of user.save(); raced collects the tokens that
\* requests reading the same array element write while this one waits
RefreshBegin ==
  \E token \in TokenInputs :
    LET read == refreshRead(users, now, token)
    IN  /\ Len(pending) < MaxInFlight
        /\ IF read.done
           THEN /\ last' = [op |-> "refresh", status |-> read.res.status]
                /\ UNCHANGED pending
           ELSE /\ pending' = Append(pending, [op |-> "refresh", token |-> token,
                                               read |-> read, raced |-> {},
                                               stale |-> FALSE, cleared |-> FALSE])
                /\ last' = Idle
        /\ UNCHANGED <<users, clock, rotated, revoked, config, browser, authHits, posts, answered>>

\* the save of the k-th waiting refresh and its answer
RefreshSaveAt(k) ==
  LET r == refreshSave(users, pending[k].read, pending[k].stale)
  IN  /\ pending[k].op = "refresh"
      /\ users' = r.users
      /\ last' = [op |-> "refresh", status |-> r.res.status]
      /\ UNCHANGED <<clock, rotated, revoked, config, browser, authHits, posts>>

\* the same with the answer recorded, and the token written recorded in the
\* requests that wait to write the same array element
RefreshEndAt(k) ==
  LET sameElement(j) == /\ pending[j].op = "refresh"
                        /\ pending[j].read.user = pending[k].read.user
                        /\ pending[j].read.tokenIndex = pending[k].read.tokenIndex
                        /\ pending[j].token = pending[k].token
      marked == [j \in DOMAIN pending |->
                   IF j # k /\ sameElement(j)
                   THEN [pending[j] EXCEPT !.raced =
                           @ \cup {pending[k].read.authResponse.tokens.refreshToken}]
                   ELSE pending[j]]
  IN  /\ RefreshSaveAt(k)
      /\ pending' = RemoveAt(marked, k)
      /\ answered' = answered \cup {[op |-> "refresh", token |-> pending[k].token,
                                      status |-> last'.status]}

RefreshEnd == \E k \in DOMAIN pending : RefreshEndAt(k)

\* register and login while no request is in flight
Alone == pending = <<>> /\ (Register \/ Login)

NextRefreshRace ==
  \/ Alone
  \/ RefreshBegin
  \/ RefreshEnd
  \/ Tick

SpecRefreshRace == Init /\ [][NextRefreshRace]_vars

------------------------------------------------------------------------------
(* Register requests in flight together *)

\* validate and the existence check; the handler then waits for save()
RegisterBegin ==
  \E body \in RegisterBodies :
    LET check == registerCheck(users, body)
    IN  /\ Len(pending) < MaxInFlight
        /\ IF check.done
           THEN /\ last' = [op |-> "register", status |-> check.res.status]
                /\ UNCHANGED pending
           ELSE /\ pending' = Append(pending, [op |-> "register", body |-> body])
                /\ last' = Idle
        /\ UNCHANGED <<users, clock, rotated, revoked, config, browser, authHits, posts, answered>>

\* the saves of a waiting register and its answer
RegisterEnd ==
  \E k \in DOMAIN pending, salt \in Salts :
    LET r == registerSave(users, now, pending[k].body, salt)
    IN  /\ pending[k].op = "register"
        /\ SessionCount(r.users) <= MaxSessions
        /\ users' = r.users
        /\ last' = [op |-> "register", status |-> r.res.status]
        /\ pending' = RemoveAt(pending, k)
        /\ answered' = answered \cup {[op |-> "register", body |-> pending[k].body,
                                        status |-> r.res.status]}
        /\ UNCHANGED <<clock, rotated, revoked, config, browser, authHits, posts>>

NextRegisterRace ==
  \/ RegisterBegin
  \/ RegisterEnd
  \/ Tick

SpecRegisterRace == Init /\ [][NextRegisterRace]_vars

------------------------------------------------------------------------------
(* Login, refresh, logout and logout-all requests of one user in flight     *)
(* together; register is handled while none is in flight                    *)

\* a waiting request: what it presented and what it read
Waiting(op, token, read) ==
  [op |-> op, token |-> token, read |-> read, raced |-> {},
   stale |-> FALSE, cleared |-> FALSE]

\* the k-th request has written and changed the version of user u's
\* document: the requests that read that document before are stale
VersionChanged(pend, k, u) ==
  [j \in DOMAIN pend |->
     IF j # k /\ pend[j].read.user = u
     THEN [pend[j] EXCEPT !.stale = TRUE]
     ELSE pend[j]]

\* the first user registers
RegisterFirstReq ==
  /\ users = <<>>
  /\ pending = <<>>
  /\ RegisterReq

RegisterFirst ==
  RegisterFirstReq /\ UNCHANGED <<rotated, revoked, config, browser, authHits, posts, pending, answered>>

LoginBegin ==
  \E body \in LoginBodies :
    LET read == loginRead(users, now, body)
        pushes == Cardinality({j \in DOMAIN pending : pending[j].op = "login"})
    IN  /\ Len(pending) < MaxInFlight
        /\ IF read.done
           THEN /\ last' = [op |-> "login", status |-> read.res.status]
                /\ UNCHANGED pending
           ELSE /\ SessionCount(users) + pushes < MaxSessions
                /\ pending' = Append(pending, Waiting("login", AbsentToken, read))
                /\ last' = Idle
        /\ UNCHANGED <<users, clock, rotated, revoked, config, browser, authHits, posts, answered>>

\* the save of the k-th waiting login and its answer
LoginEndAt(k) ==
  LET r == loginWrite(users, pending[k].read)
  IN  /\ pending[k].op = "login"
      /\ users' = r.users
      /\ last' = [op |-> "login", status |-> r.res.status]
      /\ pending' = RemoveAt(VersionChanged(pending, k, pending[k].read.user), k)
      /\ UNCHANGED <<clock, rotated, revoked, config, browser, authHits, posts>>

LogoutBegin ==
  \E token \in TokenInputs \cup {AbsentToken} :
    LET read == logoutRead(users, token)
    IN  /\ LogoutSchema(token)
        /\ Len(pending) < MaxInFlight
        /\ IF read.done
           THEN /\ last' = [op |-> "logout", status |-> read.res.status]
                /\ UNCHANGED pending
           ELSE /\ pending' = Append(pending, Waiting("logout", token, read))
                /\ last' = Idle
        /\ UNCHANGED <<users, clock, rotated, revoked, config, browser, authHits, posts, answered>>

\* the save of the k-th waiting logout and its answer
LogoutEndAt(k) ==
  LET r == logoutWrite(users, pending[k].read, pending[k].token, pending[k].stale)
  IN  /\ pending[k].op = "logout"
      /\ users' = r.users
      /\ last' = [op |-> "logout", status |-> r.res.status]
      /\ pending' = RemoveAt(IF r.res.status = HTTP_STATUS.OK
                             THEN VersionChanged(pending, k, pending[k].read.user)
                             ELSE pending, k)
      /\ UNCHANGED <<clock, rotated, revoked, config, browser, authHits, posts>>

LogoutAllBegin ==
  \E header \in HeaderInputs :
    LET read == logoutAllRead(users, now, header)
    IN  /\ Len(pending) < MaxInFlight
        /\ IF read.done
           THEN /\ last' = [op |-> "logoutAll", status |-> read.res.status]
                /\ UNCHANGED pending
           ELSE /\ pending' = Append(pending, Waiting("logoutAll", AbsentToken, read))
                /\ last' = Idle
        /\ UNCHANGED <<users, clock, rotated, revoked, config, browser, authHits, posts, answered>>

\* the save of the k-th waiting logout-all and its answer; cleared marks the
\* refresh requests of the user that wait for their save while the array is
\* emptied
LogoutAllEndAt(k) ==
  LET r == logoutAllWrite(users, pending[k].read, pending[k].stale)
      u == pending[k].read.user
      wrote == r.res.status = HTTP_STATUS.OK /\ pending[k].read.doc # <<>>
      marked == [j \in DOMAIN pending |->
                   IF wrote /\ j # k /\ pending[j].op = "refresh"
                            /\ pending[j].read.user = u
                   THEN [pending[j] EXCEPT !.cleared = TRUE]
                   ELSE pending[j]]
  IN  /\ pending[k].op = "logoutAll"
      /\ users' = r.users
      /\ last' = [op |-> "logoutAll", status |-> r.res.status]
      /\ pending' = RemoveAt(IF wrote THEN VersionChanged(marked, k, u)
                             ELSE pending, k)
      /\ UNCHANGED <<clock, rotated, revoked, config, browser, authHits, posts>>

------------------------------------------------------------------------------
(* Logout-all against the requests in flight *)

\* a login handled while other requests wait: its push changes the version
\* of the user's document
LoginAmid ==
  \E body \in LoginBodies :
    LET read == loginRead(users, now, body)
        r == login(users, now, body)
    IN  /\ SessionCount(r.users) <= MaxSessions
        /\ users' = r.users
        /\ last' = [op |-> "login", status |-> r.res.status]
        /\ UNCHANGED clock
        /\ pending' = IF read.done THEN pending
                      ELSE [j \in DOMAIN pending |->
                              IF pending[j].read.user = read.user
                              THEN [pending[j] EXCEPT !.stale = TRUE]
                              ELSE pending[j]]
        /\ UNCHANGED <<rotated, revoked, config, browser, authHits, posts, answered>>

LogoutAllEnd == \E k \in DOMAIN pending : LogoutAllEndAt(k) /\ UNCHANGED answered

RefreshDoneAt(k) ==
  RefreshSaveAt(k) /\ pending' = RemoveAt(pending, k) /\ UNCHANGED answered

RefreshDone == \E k \in DOMAIN pending : RefreshDoneAt(k)

\* a second passes
SecondPasses ==
  /\ Len(clock) <= MaxSeconds
  /\ clock' = Append(clock, now + 1)
  /\ last' = Idle
  /\ UNCHANGED <<users, rotated, revoked, config, browser, authHits, posts, pending, answered>>

\* the requests in flight finish within the second they began in
SecondPassesAlone ==
  /\ pending = <<>>
  /\ Len(clock) <= MaxTicks
  /\ SecondPasses

NextLogoutAll ==
  \/ RegisterFirst
  \/ LoginAmid
  \/ RefreshBegin
  \/ RefreshDone
  \/ LogoutAllBegin
  \/ LogoutAllEnd
  \/ SecondPassesAlone

SpecLogoutAll == Init /\ [][NextLogoutAll]_vars

------------------------------------------------------------------------------
(* The sessions of a user followed through login, refresh and logout, with  *)
(* the tokens the answers issued and retired on record                      *)

\* a token an answer handed out ("issued") or took out of use ("retired");
\* fresh tells that no earlier answer did the same with the same string
Answer(op, token) ==
  [op |-> op, token |-> token,
   fresh |-> \A a \in answered : ~(a.op = op /\ a.token = token)]

RegisterRecorded ==
  /\ RegisterFirstReq
  /\ answered' = IF last'.status = HTTP_STATUS.CREATED
                 THEN answered \cup {Answer("issued", users'[1].refreshTokens[1])}
                 ELSE answered
  /\ UNCHANGED <<rotated, revoked, config, browser, authHits, posts, pending>>

LoginEndRecorded ==
  \E k \in DOMAIN pending :
    /\ LoginEndAt(k)
    /\ answered' = answered \cup
         {Answer("issued", pending[k].read.authResponse.tokens.refreshToken)}

RefreshEndRecorded ==
  \E k \in DOMAIN pending :
    /\ RefreshSaveAt(k)
    /\ pending' = RemoveAt(pending, k)
    /\ answered' = IF last'.status = HTTP_STATUS.OK
                   THEN answered \cup
                          {Answer("retired", pending[k].token),
                           Answer("issued",
                                  pending[k].read.authResponse.tokens.refreshToken)}
                   ELSE answered

LogoutEndRecorded ==
  \E k \in DOMAIN pending :
    /\ LogoutEndAt(k)
    /\ answered' = IF last'.status = HTTP_STATUS.OK
                   THEN answered \cup {Answer("retired", pending[k].token)}
                   ELSE answered

NextSessions ==
  \/ RegisterRecorded
  \/ LoginBegin
  \/ LoginEndRecorded
  \/ RefreshBegin
  \/ RefreshEndRecorded
  \/ LogoutBegin
  \/ LogoutEndRecorded
  \/ SecondPasses

SpecSessions == Init /\ [][NextSessions]_vars

------------------------------------------------------------------------------
(* Register with its two writes apart; the second may fail in the store.  *)
(* Login is handled while no register waits.                               *)

\* validate, the existence check and the first save
RegisterInsert ==
  \E body \in RegisterBodies, salt \in Salts :
    LET check == registerCheck(users, body)
        ins == registerInsert(users, body, salt)
    IN  /\ Len(pending) < MaxInFlight
        /\ IF check.done
           THEN /\ last' = [op |-> "register", status |-> check.res.status]
                /\ UNCHANGED <<users, pending>>
           ELSE IF ~ins.ok
           THEN /\ last' = [op |-> "register", status |-> ins.res.status]
                /\ UNCHANGED <<users, pending>>
           ELSE /\ SessionCount(users) + Len(pending) < MaxSessions
                /\ users' = ins.users
                /\ pending' = Append(pending, [op |-> "register", body |-> body,
                                               read |-> [user |-> ins.user]])
                /\ last' = Idle
        /\ UNCHANGED <<clock, rotated, revoked, config, browser, authHits, posts, answered>>

\* the second save of the k-th waiting register and its answer
RegisterStoreAt(k, fails) ==
  LET r == registerStore(users, now, pending[k].read.user, fails)
  IN  /\ pending[k].op = "register"
      /\ users' = r.users
      /\ last' = [op |-> "register", status |-> r.res.status]
      /\ pending' = RemoveAt(pending, k)
      /\ answered' = answered \cup
           {[op |-> "register", body |-> pending[k].body,
             status |-> r.res.status, tokens |-> r.res.tokens]}
      /\ UNCHANGED <<clock, rotated, revoked, config, browser, authHits, posts>>

RegisterStore == \E k \in DOMAIN pending, fails \in BOOLEAN : RegisterStoreAt(k, fails)

LoginAlone == pending = <<>> /\ Login

NextRegisterWrites ==
  \/ RegisterInsert
  \/ RegisterStore
  \/ LoginAlone
  \/ Tick

SpecRegisterWrites == Init /\ [][NextRegisterWrites]_vars

------------------------------------------------------------------------------
(* The frontend against the Express routes: ApiClient with its two          *)
(* interceptors, TokenService, and the callers AuthProvider.checkAuth,      *)
(* AuthProvider.logout and Dashboard.loadDashboardData. An entry of pending *)
(* is a request of a caller with the refresh requests its answers have set  *)
(* off: frames lists them, the caller's request first; the last one is at   *)
(* the server, every other one waits in the response interceptor for the    *)
(* one after it.                                                            *)

\* AUTH_RATE_LIMIT_MAX_REQUESTS and RATE_LIMIT_WINDOW_MS (in seconds) as
\* config/index.ts defaults them
authMaxRequests == 5
windowSeconds == 900

\* what reading a property gives on an object that has no such property
undefined == [undefined |-> TRUE]

\* obj[p] as JavaScript reads it
get(obj, p) == IF p \in DOMAIN obj THEN obj[p] ELSE undefined

\* response.data: the body res.json(createApiResponse(data, message)) or
\* res.json(createErrorResponse(error)) has sent, as axios parses it
responseData(res) ==
  IF res.success
  THEN [success |-> TRUE, message |-> res.text,
        data |-> [user |-> res.user, tokens |-> res.tokens]]
  ELSE [success |-> FALSE, error |-> res.text]

\* TokenService.setTokens: reading tokens.accessToken of undefined throws
setTokens(b, tokens) ==
  IF tokens = undefined
  THEN [threw |-> TRUE, browser |-> b]
  ELSE [threw |-> FALSE,
        browser |-> [b EXCEPT !.access_token = tokens.accessToken,
                              !.refresh_token = tokens.refreshToken]]

clearTokens(b) == [b EXCEPT !.access_token = null, !.refresh_token = null]

\* payload.exp < Date.now() / 1000
isTokenExpired(token, t) == token.exp < t

\* the request interceptor: the Authorization header the request leaves with
requestInterceptor(b, t) ==
  IF b.access_token # null /\ ~isTokenExpired(b.access_token, t)
  THEN <<Word("Bearer"), Jwt(b.access_token)>>
  ELSE <<>>

\* authRateLimit in front of a handler of the auth routes. h: the failed
\* requests counted in this window, r: what the handler answers. A request
\* is counted when it arrives and uncounted when its answer is below 400;
\* past the maximum the count decides nothing more and is not followed.
authRateLimit(us, h, r) ==
  IF h + 1 > authMaxRequests
  THEN [users |-> us, hits |-> authMaxRequests + 1,
        res |-> createErrorResponse(HTTP_STATUS.TOO_MANY_REQUESTS,
                  "Too many authentication attempts, please try again later.")]
  ELSE [users |-> r.users, res |-> r.res,
        hits |-> IF r.res.status < 400 THEN h ELSE h + 1]

\* GET /api/posts and GET /api/posts/stats: authenticate, then the read,
\* which is not followed here
getPosts(us, t, header) ==
  LET auth == authenticate(us, header, t)
  IN  IF ~auth.ok
      THEN [users |-> us, res |-> auth.res]
      ELSE [users |-> us,
            res |-> createApiResponse(HTTP_STATUS.OK, NoUser, NoTokens,
                                      "Posts retrieved successfully")]

\* the routes the frontend calls; token: the refreshToken of the body
route(us, t, h, url, header, token) ==
  CASE url = "/auth/refresh" ->
         authRateLimit(us, h, IF RefreshSchema(token)
                              THEN refreshToken(us, t, token)
                              ELSE [users |-> us, res |-> ValidationFailed])
    [] url = "/auth/logout" -> authRateLimit(us, h, logout(us, token))
    [] url = "/auth/profile" -> authRateLimit(us, h, getProfile(us, t, header))
    [] OTHER -> [users |-> getPosts(us, t, header).users,
                 res |-> getPosts(us, t, header).res, hits |-> h]

\* a request a caller sends through apiClient
Request(caller, url) ==
  [op |-> "client", caller |-> caller, url |-> url,
   header |-> requestInterceptor(browser, now),
   held |-> browser.refresh_token,
   valid |-> /\ browser.refresh_token # null
             /\ refreshToken(users, now, browser.refresh_token).res.status = HTTP_STATUS.OK,
   first |-> 0,
   frames |-> <<[_retry |-> FALSE, token |-> AbsentToken]>>,
   refreshes |-> 0, retries |-> 0]

\* what a caller does when its request has settled: AuthProvider.logout
\* clears the tokens in its finally, AuthProvider.checkAuth in its catch
callerSettles(b, caller, outcome) ==
  IF caller = "logout" \/ (caller = "checkAuth" /\ outcome = "rejected")
  THEN clearTokens(b)
  ELSE b

Settled(c, outcome) ==
  [op |-> "client", caller |-> c.caller, url |-> c.url, held |-> c.held,
   valid |-> c.valid, first |-> c.first, refreshes |-> c.refreshes,
   retries |-> c.retries, outcome |-> outcome]

\* localStorage as the page finds it: a token pair the server has signed
\* for a user whose record holds the refresh token
StorageFound ==
  /\ pending = <<>>
  /\ browser.refresh_token = null
  /\ \E u \in DOMAIN users, k \in DOMAIN clock :
       LET tokens == generateTokens(users[u].id, users[u].email, clock[k])
       IN  /\ InSeq(tokens.refreshToken, users[u].refreshTokens)
           /\ browser' = [access_token |-> tokens.accessToken,
                          refresh_token |-> tokens.refreshToken,
                          location |-> "/dashboard"]
  /\ last' = Idle
  /\ answered' = {}
  /\ UNCHANGED <<users, clock, rotated, revoked, config, authHits, posts, pending>>

\* Promise.all of the two GETs: both leave before either is answered
loadDashboardData ==
  /\ pending = <<>>
  /\ browser.location = "/dashboard"
  /\ pending' = <<Request("loadDashboardData", "/posts"),
                  Request("loadDashboardData", "/posts/stats")>>
  /\ answered' = {}
  /\ last' = Idle
  /\ UNCHANGED <<users, clock, rotated, revoked, config, browser, authHits, posts>>

checkAuth ==
  /\ pending = <<>>
  /\ browser.access_token # null
  /\ pending' = <<Request("checkAuth", "/auth/profile")>>
  /\ answered' = {}
  /\ last' = Idle
  /\ UNCHANGED <<users, clock, rotated, revoked, config, browser, authHits, posts>>

\* AuthProvider.logout: authService.logout() posts without a body
AuthProviderLogout ==
  /\ pending = <<>>
  /\ browser.refresh_token # null
  /\ pending' = <<Request("logout", "/auth/logout")>>
  /\ answered' = {}
  /\ last' = Idle
  /\ UNCHANGED <<users, clock, rotated, revoked, config, browser, authHits, posts>>

\* the server answers the request at the end of frames and the response
\* interceptor runs, with the interceptors and callers waiting for it, up
\* to the next request sent or to the caller's end
AnsweredAt(k) ==
  LET c == pending[k]
      n == Len(c.frames)
      f == c.frames[n]
      r == route(users, now, authHits, IF n = 1 THEN c.url ELSE "/auth/refresh",
                 c.header, f.token)
      status == r.res.status
      c1 == IF n = 1 /\ c.first = 0 THEN [c EXCEPT !.first = status] ELSE c
      fulfilled == status >= 200 /\ status < 300
      refreshToken_ == browser.refresh_token
      refreshes == status = HTTP_STATUS.UNAUTHORIZED /\ ~f._retry /\ refreshToken_ # null
      tokens == get(responseData(r.res), "tokens")
      stored == setTokens(browser, tokens)
      toLogin == [clearTokens(browser) EXCEPT !.location = "/login"]
  IN  /\ users' = r.users
      /\ authHits' = r.hits
      /\ last' = [op |-> "client", status |-> status]
      /\ UNCHANGED <<clock, rotated, revoked, config, posts>>
      /\ IF refreshes
         THEN \* _retry is set and the refresh request leaves
              /\ pending' = [pending EXCEPT ![k] =
                   [c1 EXCEPT !.frames = Append([c.frames EXCEPT ![n]._retry = TRUE],
                                                [_retry |-> FALSE, token |-> refreshToken_]),
                              !.refreshes = @ + 1]]
              /\ UNCHANGED <<browser, answered>>
         ELSE IF n = 1
         THEN \* the caller's request settles: its response, or apiError
              LET outcome == IF fulfilled THEN "fulfilled" ELSE "rejected"
              IN  /\ pending' = RemoveAt(pending, k)
                  /\ answered' = answered \cup {Settled(c1, outcome)}
                  /\ browser' = callerSettles(browser, c.caller, outcome)
         ELSE IF fulfilled /\ ~stored.threw
         THEN \* the tokens are stored and the waiting request is sent again
              /\ pending' = [pending EXCEPT ![k] =
                   [c1 EXCEPT !.frames = SubSeq(c.frames, 1, n - 1),
                              !.header = IF n = 2
                                         THEN requestInterceptor(stored.browser, now)
                                         ELSE @,
                              !.retries = @ + 1]]
              /\ browser' = stored.browser
              /\ UNCHANGED answered
         ELSE \* the refresh request is rejected, or setTokens has thrown:
              \* the catch of every waiting interceptor clears the tokens,
              \* sets window.location.href and rejects
              /\ pending' = RemoveAt(pending, k)
              /\ answered' = answered \cup {Settled(c1, "rejected")}
              /\ browser' = callerSettles(toLogin, c.caller, "rejected")

Answered == \E k \in DOMAIN pending : pending[k].op = "client" /\ AnsweredAt(k)

\* time passes while no request is out; the limiter's window ends with it
\* when it is as long as the window
TimePasses ==
  /\ pending = <<>>
  /\ ClockReq
  /\ authHits' = IF clock'[Len(clock')] - now >= windowSeconds THEN 0 ELSE authHits
  /\ UNCHANGED <<rotated, revoked, config, browser, posts, pending, answered>>

NextClient ==
  \/ RegisterFirst
  \/ LoginAlone
  \/ StorageFound
  \/ loadDashboardData
  \/ checkAuth
  \/ AuthProviderLogout
  \/ Answered
  \/ TimePasses

SpecClient == Init /\ [][NextClient]_vars

------------------------------------------------------------------------------
(* The serverless handlers api/auth/register and api/auth/login, on the     *)
(* same User model and collection as the Express server                     *)

\* the answer of a serverless handler: res.status(status).json({error}) or
\* .json({message, user, accessToken, refreshToken})
serverlessResponse(status, text) == [status |-> status, text |-> text]

\* handleError of _middleware: 400 for a ValidationError and for a duplicate
\* key, 500 for any other error
handleError(error) ==
  IF error = "ValidationError"
  THEN serverlessResponse(HTTP_STATUS.BAD_REQUEST, "Validation failed")
  ELSE IF error = "E11000"
  THEN serverlessResponse(HTTP_STATUS.BAD_REQUEST, "Duplicate entry")
  ELSE serverlessResponse(HTTP_STATUS.INTERNAL_SERVER_ERROR, "Internal server error")

\* the 60 characters of a bcrypt hash, taken as a password: all of them are
\* within the first 72 bytes. The heads of PasswordInputs are below 1000.
hashString(h) == [len |-> 60, head |-> 1000 * h.salt + h.digest, tail |-> 0]

\* jwt.sign({ id, email }, secret, { expiresIn }): no userId claim, no
\* issuer, no audience
serverlessSign(secret, ttl, email, t) ==
  [secret |-> secret, userId |-> 0, email |-> email,
   iat |-> t, exp |-> t + ttl, iss |-> "", aud |-> ""]

\* api/auth/register: the handler hashes the password and hands the hash to
\* User.create as the password; the model's pre('save') hook finds password
\* modified and hashes what it is given. The later save() of the refresh
\* token leaves the password alone.
serverlessRegister(us, t, body, salt, salt2) ==
  IF body.name.len = 0 \/ body.email = <<>> \/ body.password.len = 0
  THEN [users |-> us,
        res |-> serverlessResponse(HTTP_STATUS.BAD_REQUEST, "All fields are required")]
  ELSE IF body.password.len < 6
  THEN [users |-> us,
        res |-> serverlessResponse(HTTP_STATUS.BAD_REQUEST,
                                   "Password must be at least 6 characters long")]
  ELSE IF findByEmail(us, body.email) # 0
  THEN [users |-> us,
        res |-> serverlessResponse(HTTP_STATUS.BAD_REQUEST,
                                   "User with this email already exists")]
  ELSE IF ~(NameValid(body.name) /\ PasswordValid(hashString(bcryptHash(body.password, salt))))
  THEN [users |-> us, res |-> handleError("ValidationError")]
  ELSE LET hashedPassword == bcryptHash(body.password, salt)
           user == newUser(us, [body EXCEPT !.password = hashString(hashedPassword)], salt2)
           refreshToken_ == serverlessSign(config.jwt.refreshSecret, RefreshTtl, <<>>, t)
       IN  [users |-> Append(us, [user EXCEPT !.refreshTokens = <<refreshToken_>>]),
            res |-> serverlessResponse(HTTP_STATUS.CREATED, "User registered successfully")]

\* User.findOne(filter) without select('+password'): the fields declared
\* select: false are not in the document
findOneDefault(us, email) ==
  LET u == findByEmail(us, email)
  IN  IF u = 0 THEN [found |-> FALSE]
      ELSE [found |-> TRUE, user |-> u,
            doc |-> [id |-> us[u].id, name |-> us[u].name, email |-> us[u].email,
                     createdAt |-> us[u].createdAt, updatedAt |-> us[u].updatedAt]]

\* bcrypt.compare(s, hash) of bcryptjs: rejects unless both are strings
bcryptCompare(s, doc) ==
  IF "password" \notin DOMAIN doc
  THEN [threw |-> TRUE]
  ELSE [threw |-> FALSE, same |-> bcryptHash(s, doc.password.salt) = doc.password]

\* api/auth/login
serverlessLogin(us, t, body) ==
  IF body.email = <<>> \/ body.password.len = 0
  THEN [users |-> us,
        res |-> serverlessResponse(HTTP_STATUS.BAD_REQUEST, "Email and password are required")]
  ELSE LET found == findOneDefault(us, body.email)
       IN  IF ~found.found
           THEN [users |-> us,
                 res |-> serverlessResponse(HTTP_STATUS.UNAUTHORIZED, "Invalid email or password")]
           ELSE LET isValidPassword == bcryptCompare(body.password, found.doc)
                IN  IF isValidPassword.threw
                    THEN [users |-> us, res |-> handleError("Illegal arguments")]
                    ELSE IF ~isValidPassword.same
                    THEN [users |-> us,
                          res |-> serverlessResponse(HTTP_STATUS.UNAUTHORIZED,
                                                     "Invalid email or password")]
                    ELSE [users |-> [us EXCEPT ![found.user].refreshTokens =
                                       Append(@, serverlessSign(config.jwt.refreshSecret,
                                                                RefreshTtl, <<>>, t))],
                          res |-> serverlessResponse(HTTP_STATUS.OK, "Login successful")]

ServerlessRegister ==
  \E body \in RegisterBodies, salt \in Salts, salt2 \in Salts :
    LET r == serverlessRegister(users, now, body, salt, salt2)
    IN  /\ SessionCount(r.users) <= MaxSessions
        /\ users' = r.users
        /\ last' = [op |-> "serverlessRegister", status |-> r.res.status]
        /\ answered' = IF r.res.status = HTTP_STATUS.CREATED
                       THEN answered \cup {[op |-> "serverlessRegister",
                                            email |-> body.email,
                                            password |-> body.password]}
                       ELSE answered
        /\ UNCHANGED <<clock, rotated, revoked, config, browser, authHits, posts, pending>>

ServerlessLogin ==
  \E body \in LoginBodies :
    LET r == serverlessLogin(users, now, body)
    IN  /\ SessionCount(r.users) <= MaxSessions
        /\ users' = r.users
        /\ last' = [op |-> "serverlessLogin", status |-> r.res.status]
        /\ UNCHANGED <<clock, rotated, revoked, config, browser, authHits, posts, pending, answered>>

NextServerless ==
  \/ ServerlessRegister
  \/ ServerlessLogin
  \/ Register
  \/ Login
  \/ Tick

SpecServerless == Init /\ [][NextServerless]_vars

------------------------------------------------------------------------------
(* Vocabulary of the properties *)

\* token is held in some user's refreshTokens
Stored(us, token) ==
  \E i \in DOMAIN us : \E k \in DOMAIN us[i].refreshTokens :
    us[i].refreshTokens[k] = token

\* token carries the refresh secret's signature, the fixed issuer and
\* audience, and has not reached its expiry at time t
ValidRefresh(token, t) ==
  /\ token.secret = config.jwt.refreshSecret
  /\ token.iss = ISSUER /\ token.aud = AUDIENCE
  /\ t < token.exp

\* a refresh call presenting token is answered 200
Accepted(us, t, token) == refreshToken(us, t, token).res.status = 200

\* a refresh call presenting token is answered 401
Refused(us, t, token) == refreshToken(us, t, token).res.status = 401

\* equality of two emails up to the case of their letters
EqualIgnoringCase(e1, e2) ==
  /\ Len(e1) = Len(e2)
  /\ \A i \in DOMAIN e1 : \/ e1[i] = e2[i]
                          \/ {e1[i], e2[i]} = {"a", "A"}

\* a record with everything but its refreshTokens
Frozen(user) == [id |-> user.id, name |-> user.name, email |-> user.email,
                 password |-> user.password,
                 createdAt |-> user.createdAt, updatedAt |-> user.updatedAt]

\* token carries the access secret's signature, the fixed issuer and
\* audience, and has not reached its expiry at time t
ValidAccess(token, t) ==
  /\ token.secret = config.jwt.accessSecret
  /\ token.iss = ISSUER /\ token.aud = AUDIENCE
  /\ t < token.exp

\* the header reads 'Bearer <token>'
BearerHeader(header) == Len(header) = 2 /\ header[1].word = "Bearer"

InvalidCredentials ==
  [status |-> 401, success |-> FALSE, text |-> "Invalid email or password",
   user |-> NoUser, tokens |-> NoTokens]

------------------------------------------------------------------------------
(* Properties *)

\* C1: once a refresh has succeeded with a token, every later refresh
\* presenting that token is answered 401.
C1_AntiReplay == \A token \in rotated : Refused(users, now, token)

\* C2: a refresh is answered 200 only for a token that verifies as a refresh
\* token and is stored at that moment; a valid token that is not stored and a
\* stored token that has expired are answered 401.
C2_RefreshNeedsValidStoredToken ==
  \A token \in TokenInputs :
    /\ Accepted(users, now, token) =>
         ValidRefresh(token, now) /\ Stored(users, token)
    /\ Accepted(users, now, token) =>
         refreshToken(users, now, token).res.tokens.present
    /\ ValidRefresh(token, now) /\ ~Stored(users, token) => Refused(users, now, token)
    /\ Stored(users, token) /\ ~ValidRefresh(token, now) => Refused(users, now, token)

C2_Witness ==
  /\ last.op = "refresh" /\ last.status = 401
  /\ \E token \in RefreshTokens : ValidRefresh(token, now) /\ ~Stored(users, token)
  /\ \E token \in RefreshTokens : Stored(users, token) /\ ~ValidRefresh(token, now)

\* C3: after a logout-all of a user, a refresh with any refresh token issued
\* to that user before it is answered 401, and a login that succeeds returns
\* a refresh token that refresh accepts.
C3_LogoutAllRevokes ==
  /\ \A token \in revoked : Refused(users, now, token)
  /\ \A body \in LoginBodies :
       LET l == login(users, now, body)
       IN  l.res.status = 200 => Accepted(l.users, now, l.res.tokens.refreshToken)

C5_DuplicateEmailConflict ==
  \A body \in RegisterBodies, salt \in Salts :
    LET r == register(users, now, body, salt)
    IN  /\ CreateUserSchema(body)
        /\ \E i \in DOMAIN users : EqualIgnoringCase(users[i].email, body.email)
        => r.res.status = 409 /\ r.users = users /\ ~r.res.tokens.present

C5_Witness ==
  /\ last.op = "register" /\ last.status = 409
  /\ Len(users) >= 1

\* C6: a successful login appends the returned refresh token to the user's
\* refreshTokens and removes nothing: what refresh accepted before, it
\* accepts after.
C6_LoginAppends ==
  \A body \in LoginBodies :
    LET l == login(users, now, body)
    IN  l.res.status = 200 =>
          /\ \E u \in DOMAIN users :
               l.users = [users EXCEPT ![u].refreshTokens =
                             Append(@, l.res.tokens.refreshToken)]
          /\ \A token \in TokenInputs :
               Accepted(users, now, token) => Accepted(l.users, now, token)

C6_Witness ==
  /\ last.op = "login" /\ last.status = 200
  /\ \E i \in DOMAIN users :
       /\ Len(users[i].refreshTokens) = 2
       /\ users[i].refreshTokens[1] # users[i].refreshTokens[2]
       /\ Accepted(users, now, users[i].refreshTokens[1])
       /\ Accepted(users, now, users[i].refreshTokens[2])

\* C7: a successful refresh puts the new refresh token at the place of the
\* presented one and changes nothing else: same length, every other entry in
\* place and still accepted, every other record as it was.
C7_RefreshSwapsInPlace ==
  \A token \in TokenInputs :
    LET r == refreshToken(users, now, token)
    IN  r.res.status = 200 =>
          /\ Len(r.users) = Len(users)
          /\ \E u \in DOMAIN users : \E k \in DOMAIN users[u].refreshTokens :
               /\ users[u].refreshTokens[k] = token
               /\ \A j \in 1..(k - 1) : users[u].refreshTokens[j] # token
               /\ Frozen(r.users[u]) = Frozen(users[u])
               /\ Len(r.users[u].refreshTokens) = Len(users[u].refreshTokens)
               /\ r.users[u].refreshTokens[k] = r.res.tokens.refreshToken
               /\ \A j \in DOMAIN users[u].refreshTokens \ {k} :
                    /\ r.users[u].refreshTokens[j] = users[u].refreshTokens[j]
                    /\ Accepted(users, now, users[u].refreshTokens[j])
                         => Accepted(r.users, now, users[u].refreshTokens[j])
               /\ \A v \in DOMAIN users \ {u} : r.users[v] = users[v]

C7_Witness ==
  /\ last.op = "refresh" /\ last.status = 200
  /\ \E u \in DOMAIN users :
       /\ Len(users[u].refreshTokens) = 2
       /\ users[u].refreshTokens[1] =
            generateRefreshToken(users[u].id, users[u].email, now)
       /\ users[u].refreshTokens[2] #
            generateRefreshToken(users[u].id, users[u].email, now)

\* C8: logout with a stored token removes that token and leaves every other
\* token of every user in place; logout with no token or with a token no
\* user holds changes no record; a second logout with the same token changes
\* nothing more; the answer is 200 each time.
C8_LogoutRemovesThatToken ==
  \A token \in TokenInputs \cup {AbsentToken} :
    LET r == logout(users, token)
        again == logout(r.users, token)
    IN  /\ r.res.status = 200
        /\ again.res.status = 200
        /\ again.users = r.users
        /\ Len(r.users) = Len(users)
        /\ ~Stored(users, token) => r.users = users
        /\ Stored(users, token) =>
             /\ ~Stored(r.users, token)
             /\ \A i \in DOMAIN users :
                  /\ Frozen(r.users[i]) = Frozen(users[i])
                  /\ r.users[i].refreshTokens =
                       SelectSeq(users[i].refreshTokens, LAMBDA other : other # token)

C8_Witness ==
  /\ last.op = "logout" /\ last.status = 200
  /\ \E token \in RefreshTokens : ~Stored(users, token) /\ ValidRefresh(token, now)
  /\ \E i \in DOMAIN users : Len(users[i].refreshTokens) >= 1

\* C9: a login with an email no user has and a login with an existing email
\* and a password that does not match are answered with the same response,
\* status 401 and the same message.
C9_LoginFailuresAlike ==
  \A body \in LoginBodies :
    LET u == {i \in DOMAIN users : EqualIgnoringCase(users[i].email, body.email)}
        unknown == u = {}
        mismatch == \E i \in u : ~comparePassword(users[i], body.password)
    IN  LoginUserSchema(body) /\ (unknown \/ mismatch) =>
          login(users, now, body).res = InvalidCredentials

C9_Witness ==
  /\ last.op = "login" /\ last.status = 401
  /\ \E body \in LoginBodies :
       /\ LoginUserSchema(body)
       /\ \A i \in DOMAIN users : ~EqualIgnoringCase(users[i].email, body.email)
  /\ \E body \in LoginBodies : \E i \in DOMAIN users :
       /\ EqualIgnoringCase(users[i].email, body.email)
       /\ ~comparePassword(users[i], body.password)

\* C10: a login or a refresh that is not answered 200 returns no token and
\* leaves every user record as it was.
C10_FailuresWriteNothing ==
  /\ \A body \in LoginBodies :
       LET l == login(users, now, body)
       IN  l.res.status # 200 => l.users = users /\ ~l.res.tokens.present
  /\ \A token \in TokenInputs :
       LET r == refreshToken(users, now, token)
       IN  r.res.status # 200 => r.users = users /\ ~r.res.tokens.present

C10_Witness ==
  /\ last.op = "refresh" /\ last.status = 401
  /\ \E token \in RefreshTokens : Stored(users, token) /\ ~ValidRefresh(token, now)
  /\ \E body \in LoginBodies : login(users, now, body).res = InvalidCredentials

\* C11: authenticate lets a request through exactly when its header reads
\* 'Bearer <token>', the token verifies as an access token and its userId is
\* the id of a user; it then attaches that user with the token's userId and
\* email. Otherwise it answers 401 and the handler behind it does nothing.
C11_AuthenticateGuards ==
  \A header \in HeaderInputs :
    LET auth == authenticate(users, header, now)
        admitted == /\ BearerHeader(header)
                    /\ ValidAccess(header[2].token, now)
                    /\ \E i \in DOMAIN users : users[i].id = header[2].token.userId
    IN  /\ auth.ok <=> admitted
        /\ auth.ok =>
             /\ auth.user \in DOMAIN users
             /\ users[auth.user].id = header[2].token.userId
             /\ auth.jwtPayload = [userId |-> header[2].token.userId,
                                   email |-> header[2].token.email]
             /\ getProfile(users, now, header).res.status = 200
             /\ logoutAll(users, now, header).res.status = 200
        /\ ~auth.ok =>
             /\ auth.res.status = 401
             /\ getProfile(users, now, header) = [users |-> users, res |-> auth.res]
             /\ logoutAll(users, now, header) = [users |-> users, res |-> auth.res]

C11_Witness ==
  /\ last.op = "logoutAll" /\ last.status = 401
  /\ \E header \in HeaderInputs : authenticate(users, header, now).ok
  /\ \E header \in HeaderInputs :
       /\ BearerHeader(header)
       /\ header[2].token.secret = config.jwt.accessSecret
       /\ ~ValidAccess(header[2].token, now)
  /\ \E i \in DOMAIN users : Len(users[i].refreshTokens) >= 1

\* the user object of a response is absent or the public view of a stored user
PublicView(us, res) ==
  \/ res.user = NoUser
  \/ /\ DOMAIN res.user = {"id", "name", "email", "createdAt", "updatedAt"}
     /\ \E i \in DOMAIN us :
          /\ res.user.id = us[i].id
          /\ res.user.name = us[i].name
          /\ res.user.email = us[i].email
          /\ res.user.createdAt = us[i].createdAt
          /\ res.user.updatedAt = us[i].updatedAt

\* C12: the user object in a response of register, login, refresh and
\* profile is the public view (id, name, email, creation and update
\* timestamps) of a stored user: it has no password and no refreshTokens.
C12_PublicViewOnly ==
  /\ \A body \in RegisterBodies, salt \in Salts :
       LET r == register(users, now, body, salt)
       IN  /\ PublicView(r.users, r.res)
           /\ r.res.status = 201 => r.res.user # NoUser
  /\ \A body \in LoginBodies :
       LET l == login(users, now, body)
       IN  /\ PublicView(l.users, l.res)
           /\ l.res.status = 200 => l.res.user # NoUser
  /\ \A token \in TokenInputs :
       LET r == refreshToken(users, now, token)
       IN  /\ PublicView(r.users, r.res)
           /\ r.res.status = 200 => r.res.user # NoUser
  /\ \A header \in HeaderInputs :
       LET g == getProfile(users, now, header)
       IN  /\ PublicView(g.users, g.res)
           /\ g.res.status = 200 => g.res.user # NoUser

C12_Witness ==
  /\ last.op = "getProfile" /\ last.status = 200
  /\ \E i \in DOMAIN users :
       /\ Len(users[i].refreshTokens) >= 1
       /\ "password" \in DOMAIN users[i]
       /\ "refreshTokens" \in DOMAIN users[i]
       /\ \E header \in HeaderInputs :
            LET g == getProfile(users, now, header)
            IN  g.res.status = 200 /\ g.res.user.id = users[i].id

\* C13: no two user records have the same email up to letter case, also
\* after register requests for one email were in flight together.
C13_EmailUnique ==
  \A i, j \in DOMAIN users :
    i # j => ~EqualIgnoringCase(users[i].email, users[j].email)

C13_Witness ==
  /\ pending = <<>>
  /\ \E a, b \in answered :
       /\ a.status = 201 /\ b.status = 500
       /\ EqualIgnoringCase(a.body.email, b.body.email)
       /\ NameValid(b.body.name) /\ PasswordValid(b.body.password)
  /\ Len(users) = 2

\* C14: a register request is answered 201 with user and tokens, 409 when
\* the email is taken, or 422 when the body fails validation, and nothing
\* else; of two requests for one email in flight together, the one that does
\* not create the user is answered 409.
C14_RegisterAnswers ==
  /\ last.op = "register" => last.status \in {201, 409, 422}
  /\ \A a \in answered : a.op = "register" => a.status \in {201, 409, 422}
  /\ \A a, b \in answered :
       /\ a.status = 201 /\ a # b
       /\ EqualIgnoringCase(a.body.email, b.body.email)
       => b.status = 409

\* C15: a refresh request whose refreshToken is the empty string is answered
\* 401 and changes no record.
C15_EmptyRefreshToken ==
  [][RefreshTokenReq(EmptyToken) => last'.status = 401 /\ users' = users]_vars

\* C16: under every configuration the service starts with, no access token
\* passes verifyRefreshToken or is accepted by refresh, and no refresh token
\* presented as bearer token passes authenticate.
C16_KeySeparation ==
  /\ \A token \in AccessTokens :
       /\ ~verifyRefreshToken(token, now).ok
       /\ ~Accepted(users, now, token)
  /\ \A token \in RefreshTokens :
       /\ ~verifyAccessToken(token, now).ok
       /\ ~authenticate(users, <<Word("Bearer"), Jwt(token)>>, now).ok

\* C17: an access token passes verifyAccessToken from its issue until
\* AccessTtl seconds later and fails from then on; an expired token and a
\* token that is malformed or signed with another key fail with two
\* different errors, and authenticate answers 401 for both.
C17_AccessTokenExpiry ==
  /\ \A token \in AccessTokens :
       /\ verifyAccessToken(token, now).ok <=> now < token.iat + AccessTtl
       /\ \A d \in {0, 1, AccessTtl - 1, AccessTtl, AccessTtl + 1, RefreshTtl} :
            LET fresh == generateAccessToken(token.userId, token.email, now)
                v == verifyAccessToken(fresh, now + d)
                auth == authenticate(users, <<Word("Bearer"), Jwt(fresh)>>, now + d)
            IN  /\ v.ok <=> d < AccessTtl
                /\ ~v.ok => /\ v.error = "Access token has expired"
                            /\ ~auth.ok
                            /\ auth.res.status = 401
                            /\ auth.res.text = v.error
  /\ \A token \in RefreshTokens \cup {GarbageToken} :
       LET v == verifyAccessToken(token, now)
           auth == authenticate(users, <<Word("Bearer"), Jwt(token)>>, now)
       IN  /\ ~v.ok
           /\ v.error = "Invalid access token"
           /\ v.error # "Access token has expired"
           /\ ~auth.ok
           /\ auth.res.status = 401
           /\ auth.res.text = v.error

C17_Witness ==
  /\ last.op = "getProfile" /\ last.status = 401
  /\ \E token \in AccessTokens :
       /\ ~verifyAccessToken(token, now).ok
       /\ now = token.iat + AccessTtl
  /\ \E token \in AccessTokens : verifyAccessToken(token, now).ok

\* C18: updatePost and deletePost by an authenticated user answer 200 and
\* take effect when the token's userId is the post's author id, and answer
\* 403 and leave the post as it is when it is another user's id.
C18_PostOwnership ==
  \A header \in HeaderInputs, k \in DOMAIN posts :
    LET auth == authenticate(users, header, now)
        body == [title |-> "t2"]
        u == updatePost(posts, users, now, header, posts[k].id, body)
        d == deletePost(posts, users, now, header, posts[k].id)
    IN  auth.ok =>
          IF auth.jwtPayload.userId = posts[k].author
          THEN /\ u.res.status = 200
               /\ u.posts = [posts EXCEPT ![k].title = "t2"]
               /\ d.res.status = 200
               /\ d.posts = RemoveAt(posts, k)
          ELSE /\ u.res.status = 403 /\ u.posts = posts
               /\ d.res.status = 403 /\ d.posts = posts

\* C19: requireOwnership calls the next handler only when the request has
\* an authenticated user and the owner id it states (route parameter userId,
\* else the body field) is that user's id; it answers 401 when there is no
\* authenticated user and 403 when the stated owner id differs.
C19_RequireOwnership ==
  [][\A header \in HeaderInputs, paramsUserId \in OwnerIdInputs,
       bodyField \in OwnerIdInputs :
       OwnershipReq(header, paramsUserId, bodyField) =>
         LET user == optionalAuthenticate(users, header, now)
             stated == IF paramsUserId # Absent THEN paramsUserId ELSE bodyField
         IN  /\ last'.op = "next" =>
                  /\ user # 0
                  /\ stated = ObjectIdString(users[user].id)
             /\ user = 0 => last'.status = 401
             /\ user # 0 /\ stated # Absent /\ stated # ObjectIdString(users[user].id)
                  => last'.status = 403]_vars

\* C20: of two refresh requests that read the same stored token before
\* either writes, both are answered 200, and after the later write the
\* user's refreshTokens hold the token of the later write and not the token
\* of the earlier one.
C20_RefreshLostUpdate ==
  [][\A k \in DOMAIN pending :
       RefreshEndAt(k) /\ pending[k].raced # {} =>
         /\ last'.status = 200
         /\ [op |-> "refresh", token |-> pending[k].token, status |-> 200] \in answered
         /\ Stored(users', pending[k].read.authResponse.tokens.refreshToken)
         /\ \A earlier \in pending[k].raced :
              ~InSeq(earlier, users'[pending[k].read.user].refreshTokens)]_vars

\* the refresh tokens user u holds
Held(u) == {users[u].refreshTokens[k] : k \in DOMAIN users[u].refreshTokens}

\* the refresh tokens the answers so far handed out
Issued == {a.token : a \in {b \in answered : b.op = "issued"}}

\* the refresh tokens the answers so far took out of use: rotated out by a
\* refresh or logged out
Retired == {a.token : a \in {b \in answered : b.op = "retired"}}

\* every answer issued a string of its own and no two answers retired the
\* same token: the requests acted on different sessions
DifferentSessions == \A a \in answered : a.fresh

\* C21: when the login, refresh and logout requests on different sessions
\* of a user have all finished, under every interleaving of their reads and
\* writes, the user's refreshTokens hold exactly the tokens that were issued
\* and not rotated out or logged out: the latest token of every session that
\* was not logged out, and no token that was rotated out or logged out.
C21_SessionsIndependent ==
  (pending = <<>> /\ users # <<>> /\ DifferentSessions)
    => Held(1) = Issued \ Retired

C23_RegisterSecondWriteFails ==
  /\ [][\A k \in DOMAIN pending :
          RegisterStoreAt(k, TRUE) =>
            /\ last'.status # 201
            /\ \A a \in answered' \ answered : a.tokens = NoTokens
            /\ pending[k].read.user \in DOMAIN users'
            /\ users'[pending[k].read.user].email = toLowerCase(pending[k].body.email)
            /\ users'[pending[k].read.user].refreshTokens = <<>>]_vars
  /\ [](\A a \in answered :
          a.op = "register" /\ a.status # 201 =>
            login(users, now, [email |-> a.body.email,
                               password |-> a.body.password]).res.status = 200)

\* a register whose second save failed has been answered, and a login with
\* its email and password has succeeded since
C23_Witness ==
  /\ last.op = "login" /\ last.status = 200
  /\ \E a \in answered :
       /\ a.op = "register" /\ a.status = 500
       /\ \E u \in DOMAIN users :
            /\ users[u].email = toLowerCase(a.body.email)
            /\ Len(users[u].refreshTokens) = 1

\* C24: every refresh token issued by register, login or refresh is a
\* string no earlier one was, also within one second of the clock: no
\* user's refreshTokens hold the same string twice, and a refresh answered
\* 200 returns a refresh token other than the one presented.
C24_RefreshTokensDistinct ==
  /\ \A u \in DOMAIN users : \A j, k \in DOMAIN users[u].refreshTokens :
       j # k => users[u].refreshTokens[j] # users[u].refreshTokens[k]
  /\ \A token \in TokenInputs :
       LET r == refreshToken(users, now, token)
       IN  r.res.status = 200 => r.res.tokens.refreshToken # token

\* C25: in every reachable state every token in a user's refreshTokens was
\* signed for that user (its userId claim is the id of the record that
\* holds it), no string is held by two records, and so the lookup of the
\* owner by token matches at most one user.
C25_TokensBelongToHolder ==
  /\ \A i \in DOMAIN users : \A k \in DOMAIN users[i].refreshTokens :
       /\ users[i].refreshTokens[k].userId = users[i].id
       /\ users[i].refreshTokens[k].email = users[i].email
  /\ \A i, j \in DOMAIN users : \A k \in DOMAIN users[i].refreshTokens :
       i # j => ~InSeq(users[i].refreshTokens[k], users[j].refreshTokens)
  /\ \A token \in TokenInputs :
       Cardinality({i \in DOMAIN users : InSeq(token, users[i].refreshTokens)}) <= 1

\* two users hold refresh tokens signed in the same second
C25_Witness ==
  /\ Len(users) = 2
  /\ users[1].refreshTokens # <<>> /\ users[2].refreshTokens # <<>>
  /\ users[1].refreshTokens[1].iat = users[2].refreshTokens[1].iat

\* C26: login, refresh, logout and logout-all leave every stored password
\* hash as register wrote it, and in every reachable state a login with a
\* user's email is answered 200 for the registered password and for no
\* other password: exactly one password is accepted.
C26_PasswordHashKept ==
  /\ \A i \in DOMAIN users :
       /\ \A body \in LoginBodies :
            login(users, now, body).users[i].password = users[i].password
       /\ \A token \in TokenInputs \cup {AbsentToken} :
            /\ refreshToken(users, now, token).users[i].password = users[i].password
            /\ logout(users, token).users[i].password = users[i].password
       /\ \A header \in HeaderInputs :
            logoutAll(users, now, header).users[i].password = users[i].password
  /\ \A i \in DOMAIN users :
       Cardinality({pw \in PasswordInputs :
                      login(users, now, [email |-> users[i].email,
                                         password |-> pw]).res.status = 200}) = 1

\* C27: for a request of a caller answered 401, the client sends at most one
\* refresh request and sends the request again at most once; a refresh
\* request answered 401 sets off no further refresh request
C27_OneRefreshPerRequest ==
  /\ \A k \in DOMAIN pending :
       pending[k].op = "client" =>
         /\ pending[k].refreshes <= 1
         /\ pending[k].retries <= 1
         /\ Len(pending[k].frames) <= 2
  /\ \A a \in answered :
       a.op = "client" => a.refreshes <= 1 /\ a.retries <= 1

\* the two requests of one loadDashboardData have just settled, both first
\* answered 401, sent while the server accepted the stored refresh token
BothUnauthorized ==
  /\ pending = <<>>
  /\ last.op = "client"
  /\ \A url \in {"/posts", "/posts/stats"} :
       \E a \in answered :
         /\ a.caller = "loadDashboardData" /\ a.url = url
         /\ a.first = HTTP_STATUS.UNAUTHORIZED
         /\ a.valid

\* C28: after two parallel requests of the dashboard were both answered 401
\* with a refresh token the server accepted, the client holds a token pair
\* the server accepts and has not been sent to the login page
C28_ParallelRefreshKeepsSession ==
  BothUnauthorized =>
    /\ browser.location # "/login"
    /\ browser.refresh_token # null
    /\ browser.access_token # null
    /\ refreshToken(users, now, browser.refresh_token).res.status = HTTP_STATUS.OK
    /\ getPosts(users, now, requestInterceptor(browser, now)).res.status = HTTP_STATUS.OK

\* C29: once AuthProvider.logout has completed, the refresh token the client
\* held is in no user's refreshTokens: presented to refresh it is answered 401
C29_LogoutRemovesToken ==
  \A a \in answered :
    (a.op = "client" /\ a.caller = "logout" /\ last.op = "client") =>
      /\ findByRefreshToken(users, a.held) = 0
      /\ refreshToken(users, now, a.held).res.status = HTTP_STATUS.UNAUTHORIZED

\* C30: a user created by the serverless register handler can log in with
\* the email and password registered, through the serverless login and
\* through the Express login: the stored hash verifies against the password
C30_ServerlessRegisterThenLogin ==
  \A a \in answered :
    a.op = "serverlessRegister" =>
      LET body == [email |-> a.email, password |-> a.password]
          u == findByEmail(users, a.email)
      IN  /\ u # 0
          /\ comparePassword(users[u], a.password)
          /\ login(users, now, body).res.status = HTTP_STATUS.OK
          /\ serverlessLogin(users, now, body).res.status = HTTP_STATUS.OK

====
